---- MODULE Spec2Model ----
(***************************************************************************)
(* Catalog synchronisation pipeline of PrimeStream: the TMDB discovery     *)
(* operations (discoverMoviesByYear, discoverTVShowsByYear,                *)
(* getPopularMovies, getPopularTVShows), the season/episode expansion      *)
(* (addEpisodesForSeason), the Vidsrc latest-episodes import, the subtitle *)
(* lookup, their callers (refreshContentDatabase, the admin year routes    *)
(* and the admin panel's bulk import), and the two storage back ends       *)
(* (MemStorage, DatabaseStorage) they run against.  Every `await` of the   *)
(* source is a step boundary: one action is the code that runs when the    *)
(* awaited call returns, up to the next await.                             *)
(***************************************************************************)
EXTENDS Integers, Sequences, FiniteSets, TLC

\* ------------------------------------------------------------------ bounds

\* Longest page (results array) the metadata provider returns.
MaxPage == 2

\* Largest number_of_seasons a title-detail response carries.
MaxSeasons == 1

\* Longest episode list a season-detail response carries.
MaxEpisodes == 2

\* Number of times the clock is advanced in one behaviour.
MaxTicks == 2

\* Longest array of the episodes feed.
MaxFeed == 2

\* number_of_seasons of the long-running series.
LongSeasons == 2

\* Largest pagesToFetch of a refresh.
MaxRefreshPages == 2

\* The longest year range whose confirmation the administrator accepts.
MaxBulkYears == 6

\* ------------------------------------------------------- program constants

\* 24 * 60 * 60 * 1000: the freshness window of the TMDB operations.
YearTTL == 24 * 60 * 60 * 1000

\* 60 * 60 * 1000: the freshness window of the Vidsrc "latest" imports.
LatestTTL == 60 * 60 * 1000

\* external_ids.imdb_id absent in a detail response.
NoId == 0

\* The year of the single-year sync requests.
SyncYear == 2020

\* The two implementations of IStorage.
Backends == {"mem", "db"}

\* The invocations of a behaviour: each is one call of one operation.
Tasks == {"A", "B"}

TmdbOps == {"discoverMoviesByYear", "discoverTVShowsByYear",
            "getPopularMovies", "getPopularTVShows"}

Ops == TmdbOps \cup {"fetchEpisodesFromVidsrc", "getAvailableSubtitles"}

\* ------------------------------------------------------- the outside world

\* Ids the metadata provider lists.  Title 3 has no IMDb id.
TmdbIds == {1, 2, 3}

\* external_ids.imdb_id of the detail response for a TMDB id.
ImdbOf(tmdbId) == IF tmdbId = 3 THEN NoId ELSE tmdbId

ImdbIds == {ImdbOf(m) : m \in TmdbIds} \ {NoId}

\* movie.title / tvShow.name of a listed title in an edition of the listing.
Title(tmdbId, names) == <<tmdbId, names>>

\* vote_average of a listed title, in tenths.
VoteAverage(tmdbId) == IF tmdbId = 1 THEN 80 ELSE 60

\* A long-running series, listed only where the order of the seasons is
\* examined; it has an IMDb id of its own.
LongSeries == 4

\* number_of_seasons of the detail response (0: absent or zero).
NumberOfSeasons(tmdbId) ==
    IF tmdbId = 1 THEN MaxSeasons
    ELSE IF tmdbId = LongSeries THEN LongSeasons ELSE 0

RECURSIVE SeqsUpTo(_, _)
SeqsUpTo(S, n) ==
    IF n = 0 THEN {<<>>}
    ELSE LET shorter == SeqsUpTo(S, n - 1)
         IN  shorter \cup {Append(s, x) : s \in {q \in shorter : Len(q) = n - 1}, x \in S}

\* The pages (response.data.results) a discovery request can return; the
\* discover and popular endpoints of both kinds answer with the same page.
Pages == SeqsUpTo(TmdbIds, MaxPage)

\* episode_number values of a season-detail response (a list may repeat one).
EpisodeNumbers == {1, 2}

EpisodeLists == SeqsUpTo(EpisodeNumbers, MaxEpisodes)

\* The items of the episodes feed (VidsrcEpisode), all of the series with
\* TMDB id 1: season 0 holds specials.
VidsrcEpisodes == [show_imdb_id : {ImdbOf(1)}, season : {0, 1}, episode : {1}]

\* The arrays the episodes feed can return.
Feeds == SeqsUpTo(VidsrcEpisodes, MaxFeed)

\* details.popularity of a title, one value per branch of getAvailableSubtitles.
Popularities == {0, 15, 30, 60}


\* ------------------------------------------------------------------- state

VARIABLES
    backend,      \* which IStorage implementation `storage` is
    now,          \* new Date().getTime()
    ticks,        \* clock advances so far
    movies,       \* storage: the movies table / map
    tvShows,      \* storage: the tv_shows table / map
    episodes,     \* storage: the episodes table / map
    apiCaches,    \* storage: the api_cache table / map
    currentIds,   \* storage: next id of each table (currentMovieIds, serial, ...)
    listing,      \* provider: the page a discovery request returns now
    avail,        \* playback provider: ids whose embed URL answers 200 now
    edition,      \* provider: which version of the titles' names it serves now
    refresh,      \* the call of refreshContentDatabase: position and results
    bulk,         \* AdminPanel: the year range form and handleBulkImport
    route,        \* POST /api/admin/tmdb/<type>/:year: the request being served
    probe,        \* a call of isMovieAvailableOnVidsrc / isTVShowAvailableOnVidsrc
    seed,         \* the run of resetDatabase: position and locals
    task          \* per invocation: position, locals and what it did so far

vars == <<backend, now, ticks, movies, tvShows, episodes, apiCaches, currentIds,
          listing, avail, edition, refresh, bulk, route, probe, seed, task>>

\* The callers of the sync operations.
callers == <<refresh, bulk, route, probe, seed>>

storeVars == <<movies, tvShows, episodes, apiCaches, currentIds>>

\* ------------------------------------------------------------ JSON helpers

\* JSON.stringify(response.data): the text stored in api_cache.data.
JSONstringify(value) == <<"json", value>>

\* JSON.parse(dataStr) of a stored text.
JSONparse(text) == text[2]

\* --------------------------------------------------------- storage: lookup

\* Array.from(map.values()).find(...) / const [row] = select ... where ...:
\* the id of the first row with this IMDb id, 0 when there is none.
FirstByImdbId(table, imdbId) ==
    LET hits == {r \in table : r.imdbId = imdbId}
    IN  IF hits = {} THEN 0
        ELSE (CHOOSE r \in hits : \A q \in hits : r.id <= q.id).id

\* Faulty variants of the lookups, which look into an empty table and so never
\* find a row: the deduplication properties fail with them.
C1_LookupFindsNothing(imdbId) == FirstByImdbId({}, imdbId)

C4_SeriesLookupFindsNothing(imdbId) == FirstByImdbId({}, imdbId)

getMovieByImdbId(imdbId) == FirstByImdbId(movies, imdbId)

getTVShowByImdbId(imdbId) == FirstByImdbId(tvShows, imdbId)

\* Faulty variant: no episode is ever listed.
C5_NoEpisodesListed(tvShowId, season) == {}

\* getEpisodes(tvShowId, season): MemStorage tests `season ? ... : true`, so a
\* season of 0 selects every episode of the show; DatabaseStorage tests
\* `season !== undefined`.
getEpisodes(tvShowId, season) ==
    {e \in episodes :
        /\ e.tvShowId = tvShowId
        /\ IF backend = "mem" /\ season = 0 THEN TRUE ELSE e.season = season}

\* existingEpisodes.find(e => e.season === season && e.episode === episode)
FindEpisode(existingEpisodes, season, episode) ==
    LET hits == {e \in existingEpisodes : e.season = season /\ e.episode = episode}
    IN  IF hits = {} THEN 0
        ELSE (CHOOSE e \in hits : \A q \in hits : e.id <= q.id).id

\* getCachedData(endpoint): the row of this endpoint, as a set (empty: undefined).
getCachedData(endpoint) == {c \in apiCaches : c.endpoint = endpoint}

\* The entry getCachedData returns when there is one.
CachedEntry(endpoint) == CHOOSE c \in getCachedData(endpoint) : TRUE

\* --------------------------------------------------------- storage: writes

\* {...existing, ...patch}: the fields the patch names replace the row's.
Merge(row, patch) ==
    [f \in DOMAIN row |-> IF f \in DOMAIN patch THEN patch[f] ELSE row[f]]

\* updateMovie / updateTVShow / updateEpisode(id, patch): undefined (no change)
\* when no row has the id.
UpdateRow(table, id, patch) ==
    {IF r.id = id THEN Merge(r, patch) ELSE r : r \in table}

\* createMovie / createTVShow / createEpisode: the row gets the next id.
InsertRow(table, id, data) ==
    table \cup {[f \in DOMAIN data \cup {"id"} |-> IF f = "id" THEN id ELSE data[f]]}

\* {...movie, lastUpdated: new Date()}: what createMovie / createTVShow store
\* and what updateMovie / updateTVShow merge into the row.
Stamped(data) ==
    [f \in DOMAIN data \cup {"lastUpdated"} |->
        IF f = "lastUpdated" THEN now ELSE data[f]]

\* imdb_id is UNIQUE in the movies and tv_shows tables: an insert of a second
\* row with the id fails.  The maps of MemStorage have no such constraint.
UniqueViolation(table, imdbId) ==
    backend = "db" /\ \E r \in table : r.imdbId = imdbId

\* api_cache.endpoint is UNIQUE.
CacheUniqueViolation(endpoint) ==
    backend = "db" /\ getCachedData(endpoint) # {}

\* MemStorage.setCachedData: apiCaches.set(endpoint, entry) replaces the entry
\* of the endpoint; an existing entry keeps its id.
MemSetCachedData(endpoint, data) ==
    LET old == getCachedData(endpoint)
        id  == IF old = {} THEN currentIds.cache
               ELSE (CHOOSE c \in old : TRUE).id
    IN  (apiCaches \ old)
            \cup {[id |-> id, endpoint |-> endpoint, data |-> data, lastUpdated |-> now]}

\* ------------------------------------------------------------ invocations

IsTv(op) == op \in {"discoverTVShowsByYear", "getPopularTVShows"}

IsYearOp(op) == op \in {"discoverMoviesByYear", "discoverTVShowsByYear"}

\* The cache key (request signature) of a call: the URL with the year, for
\* the year operations, and the page.
Endpoint(op, year, page) ==
    <<CASE op = "discoverMoviesByYear"    -> "discover/movie?primary_release_year&page"
        [] op = "discoverTVShowsByYear"   -> "discover/tv?first_air_date_year&page"
        [] op = "getPopularMovies"        -> "movie/popular?page"
        [] op = "getPopularTVShows"       -> "tv/popular?page"
        [] op = "fetchEpisodesFromVidsrc" -> "episodes/latest/page.json"
        [] op = "getAvailableSubtitles"   -> "subtitles_movie_1",
      IF IsYearOp(op) THEN year ELSE 0,
      page>>

\* What an operation hands to setCachedData as data, before JSON.stringify:
\* response.data, an object with the page in `results`, for the discovery
\* operations; the array itself for the episodes feed and the subtitles.
Payload(op, results) == IF op \in TmdbOps THEN [results |-> results] ELSE results

\* parsedData.results.length / episodes.length of a parsed cached payload.
CachedLength(op, parsed) == IF op \in TmdbOps THEN Len(parsed.results) ELSE Len(parsed)

\* Faulty variant: one hour for every operation.
C7_OneHourForAll(op) == 60 * 60 * 1000

\* The age below which an operation uses a cached entry.
TTL(op) == IF op = "fetchEpisodesFromVidsrc" THEN LatestTTL ELSE YearTTL

IdleTask ==
    [pc |-> "idle", op |-> "none", year |-> 0, page |-> 0,
     results |-> <<>>, names |-> 0, i |-> 0, added |-> 0, unavailable |-> 0, updated |-> 0,
     total |-> 0,
     existing |-> 0, stamp |-> 0, sel |-> 0,
     showId |-> 0, nSeasons |-> 0, seasonNum |-> 0, eps |-> <<>>, j |-> 0,
     epAdded |-> 0, epUnavailable |-> 0,
     imdbId |-> NoId,
     \* history of the run, read by the properties only
     hit |-> FALSE, ageSeen |-> -1, clean |-> TRUE, called |-> {},
     thrownAt |-> "none",
     again |-> FALSE, afterFull |-> FALSE, rowsAtStart |-> 0,
     rowsUpdated |-> 0, raceLost |-> FALSE, failedSeason |-> 0]

\* The catalog table of an operation's kind.
Catalog(op) == IF IsTv(op) THEN tvShows ELSE movies

\* The run is over: only what it returned and its history are kept.
Ended(r, pc) ==
    [IdleTask EXCEPT !.pc = pc, !.op = r.op, !.year = r.year, !.page = r.page,
                     !.added = r.added, !.thrownAt = r.thrownAt,
                     !.unavailable = r.unavailable, !.updated = r.updated,
                     !.total = r.total,
                     !.hit = r.hit, !.ageSeen = r.ageSeen, !.clean = r.clean,
                     !.again = r.again, !.afterFull = r.afterFull, !.rowsAtStart = r.rowsAtStart,
                     !.rowsUpdated = r.rowsUpdated, !.raceLost = r.raceLost]

\* return { added, unavailable, total: movies.length }
Return(r) == Ended([r EXCEPT !.total = Len(r.results)], "done")

\* The object a returned call hands to its caller: {added, unavailable, total}
\* from the discovery operations, {added, updated, total} from the episode
\* import.
Result(r) ==
    IF r.op \in TmdbOps
    THEN [added |-> r.added, unavailable |-> r.unavailable, total |-> r.total]
    ELSE [added |-> r.added, updated |-> r.updated, total |-> r.total]

\* The outer catch: console.error(...); throw error.
Throw(r) == Ended([r EXCEPT !.thrownAt = r.pc], "failed")

\* The for loop moves to the next title, or the function returns.
NextTitle(r) ==
    LET q == [r EXCEPT !.imdbId = NoId, !.i = r.i + 1, !.existing = 0, !.showId = 0, !.nSeasons = 0,
                       !.seasonNum = 0, !.eps = <<>>, !.j = 0, !.failedSeason = 0]
    IN  IF q.i > Len(q.results) THEN Return(q) ELSE [q EXCEPT !.pc = "detail"]

\* Faulty variant: a failure inside the processing of a title leaves the loop.
C17_FailureAborts(r, failed) ==
    IF failed THEN Throw(r)
    ELSE NextTitle([r EXCEPT !.unavailable = r.unavailable + 1])

\* continue after unavailable++, and the per-title catch (unavailable++ too).
SkipTitle(r, failed) ==
    NextTitle([r EXCEPT !.unavailable = r.unavailable + 1,
                        !.clean = r.clean /\ ~failed])

\* A storage call can fail only where storage is a database connection.
StorageOutcomes == IF backend = "db" THEN {"ok", "error"} ELSE {"ok"}

SetTask(t, r) == task' = [task EXCEPT ![t] = r]

\* ------------------------------------------- the TMDB discovery operations
\* discoverMoviesByYear, discoverTVShowsByYear, getPopularMovies and
\* getPopularTVShows are the same code up to the endpoint and the table.

\* A call op(year, page): it builds the endpoint and awaits
\* storage.getCachedData(endpoint).
NewCall(t, op, year, page) ==
    LET old == task[CHOOSE u \in Tasks : u # t]
        again == /\ old.pc = "done" /\ old.op = op
                 /\ old.year = year /\ old.page = page
    IN  [IdleTask EXCEPT !.pc = "getCache", !.op = op, !.year = year, !.page = page,
                         !.again = again,
                         !.afterFull = again /\ ~old.hit /\ old.clean,
                         !.rowsAtStart = Cardinality(Catalog(op))]

\* A request to an endpoint of the server calls the operation.
StartSync(t, op) ==
    /\ task[t].pc = "idle"
    /\ op \in Ops
    /\ SetTask(t, NewCall(t, op, SyncYear, 1))
    /\ UNCHANGED <<backend, now, ticks, storeVars, listing, avail, edition, callers>>

\* Faulty variant: a fresh entry's page is processed instead of returned.
C6_ProcessCachedPage(r, cached) ==
    IF cached = {} THEN [r EXCEPT !.pc = "fetch"]
    ELSE LET entry == CHOOSE c \in cached : TRUE
         IN  [r EXCEPT !.hit = TRUE, !.results = JSONparse(entry.data).results,
                       !.pc = "setCache"]

\* if (cached && now - lastUpdated < TTL) return {added: 0, unavailable: 0,
\* total: parsedData.results.length}; otherwise the request is made.
CacheCheck(r, cached) ==
    IF cached = {} THEN [r EXCEPT !.pc = "fetch"]
    ELSE LET entry == CHOOSE c \in cached : TRUE
             age   == now - entry.lastUpdated
             seen  == [r EXCEPT !.ageSeen = age]
         IN  IF age < TTL(r.op)
             THEN Ended([seen EXCEPT !.hit = TRUE, !.added = 0, !.unavailable = 0,
                                     !.total = CachedLength(r.op, JSONparse(entry.data))],
                        "done")
             ELSE [seen EXCEPT !.pc = "fetch"]

GetCacheReturn(t) ==
    LET r == task[t]
    IN  /\ r.pc = "getCache"
        /\ r.op # "getAvailableSubtitles"
        /\ \E outcome \in StorageOutcomes :
              SetTask(t, IF outcome = "error" THEN Throw(r)
                         ELSE CacheCheck(r, getCachedData(Endpoint(r.op, r.year, r.page))))
        /\ UNCHANGED <<backend, now, ticks, storeVars, listing, avail, edition, callers>>

\* Faulty variant: a failed request leaves an entry with an empty page behind.
C19_CachesFailure(t) ==
    LET r == task[t]
    IN  /\ r.pc = "fetch"
        /\ r.op \in TmdbOps
        /\ SetTask(t, Throw(r))
        /\ apiCaches' = MemSetCachedData(Endpoint(r.op, r.year, r.page),
                                         JSONstringify(Payload(r.op, <<>>)))
        /\ UNCHANGED <<backend, now, ticks, movies, tvShows, episodes, currentIds,
                       listing, avail, edition, callers>>

\* axios.get(discover / popular) returns: the page goes to setCachedData.  A
\* transport error or a non-2xx status throws to the caller.
FetchReturn(t) ==
    LET r == task[t]
    IN  /\ r.pc = "fetch"
        /\ r.op \in TmdbOps
        /\ \E outcome \in {"ok", "error"} :
              SetTask(t, IF outcome = "error" THEN Throw(r)
                         ELSE [r EXCEPT !.results = listing, !.names = edition,
                                        !.pc = "setCache"])
        /\ UNCHANGED <<backend, now, ticks, storeVars, listing, avail, edition, callers>>

\* const commonSubtitles = ['en', 'es', 'fr'], also the fallback on an error.
commonSubtitles == <<"en", "es", "fr">>

\* After setCachedData: the for loop over response.data.results starts.
StartLoop(r) ==
    LET q == [r EXCEPT !.i = 1, !.sel = 0, !.stamp = 0]
    IN  IF Len(q.results) = 0 THEN Return(q)
        ELSE IF q.op = "fetchEpisodesFromVidsrc" THEN [q EXCEPT !.pc = "showLookup"]
        ELSE [q EXCEPT !.pc = "detail"]

\* What follows a setCachedData call in its caller.
AfterSetCache(r, ok) ==
    IF r.op = "getAvailableSubtitles"
    THEN Ended([r EXCEPT !.total = IF ok THEN Len(r.results) ELSE Len(commonSubtitles)],
               "done")
    ELSE IF ok THEN StartLoop(r) ELSE Throw(r)

\* MemStorage.setCachedData runs in one piece.
SetCachedMem(t) ==
    LET r == task[t]
        endpoint == Endpoint(r.op, r.year, r.page)
    IN  /\ r.pc = "setCache"
        /\ backend = "mem"
        /\ apiCaches' = MemSetCachedData(endpoint, JSONstringify(Payload(r.op, r.results)))
        /\ currentIds' = IF getCachedData(endpoint) = {}
                         THEN [currentIds EXCEPT !.cache = @ + 1] ELSE currentIds
        /\ SetTask(t, AfterSetCache(r, TRUE))
        /\ UNCHANGED <<backend, now, ticks, movies, tvShows, episodes, listing, avail, edition, callers>>

\* DatabaseStorage.setCachedData, first statement: select the row of the
\* endpoint.  The write that follows carries new Date() of this moment.
SetCachedSelect(t) ==
    LET r == task[t]
        old == getCachedData(Endpoint(r.op, r.year, r.page))
    IN  /\ r.pc = "setCache"
        /\ backend = "db"
        /\ \E outcome \in StorageOutcomes :
              SetTask(t, IF outcome = "error" THEN AfterSetCache(r, FALSE)
                         ELSE [r EXCEPT !.pc = "setCacheWrite", !.stamp = now,
                                        !.sel = IF old = {} THEN 0
                                                ELSE (CHOOSE c \in old : TRUE).id])
        /\ UNCHANGED <<backend, now, ticks, storeVars, listing, avail, edition, callers>>

\* DatabaseStorage.setCachedData, second statement: update the selected row,
\* or insert one (which the UNIQUE endpoint refuses when a row came meanwhile).
SetCachedWrite(t) ==
    LET r == task[t]
        endpoint == Endpoint(r.op, r.year, r.page)
        data == JSONstringify(Payload(r.op, r.results))
    IN  /\ r.pc = "setCacheWrite"
        /\ \E outcome \in StorageOutcomes :
              IF outcome = "error" \/ (r.sel = 0 /\ CacheUniqueViolation(endpoint))
              THEN /\ SetTask(t, AfterSetCache(r, FALSE))
                   /\ UNCHANGED <<apiCaches, currentIds>>
              ELSE /\ SetTask(t, AfterSetCache(r, TRUE))
                   /\ IF r.sel # 0
                      THEN /\ apiCaches' = UpdateRow(apiCaches, r.sel,
                                               [data |-> data, lastUpdated |-> r.stamp])
                           /\ UNCHANGED currentIds
                      ELSE /\ apiCaches' = InsertRow(apiCaches, currentIds.cache,
                                               [endpoint |-> endpoint, data |-> data,
                                                lastUpdated |-> r.stamp])
                           /\ currentIds' = [currentIds EXCEPT !.cache = @ + 1]
        /\ UNCHANGED <<backend, now, ticks, movies, tvShows, episodes, listing, avail, edition, callers>>

\* ---------------------------------------------------- one title of the page

\* Faulty variant: the probe is sent whether or not the detail response
\* carries an imdb_id.
C13_ProbeWithoutId(t) ==
    LET r == task[t]
    IN  /\ r.pc = "detail"
        /\ SetTask(t, [r EXCEPT !.pc = "probe", !.imdbId = ImdbOf(r.results[r.i])])
        /\ UNCHANGED <<backend, now, ticks, storeVars, listing, avail, edition, callers>>

\* getMovieDetailsFromTMDB / getTVShowDetailsFromTMDB returns.  No imdb_id:
\* unavailable++ and continue.  Otherwise the availability probe is sent.
DetailReturn(t) ==
    LET r == task[t]
        imdbId == ImdbOf(r.results[r.i])
    IN  /\ r.pc = "detail"
        /\ \/ SetTask(t, SkipTitle(r, TRUE))
           \/ /\ imdbId = NoId
              /\ SetTask(t, SkipTitle(r, FALSE))
           \/ /\ imdbId # NoId
              /\ SetTask(t, [r EXCEPT
                                !.pc = "probe", !.imdbId = imdbId,
                                !.nSeasons = IF IsTv(r.op)
                                             THEN NumberOfSeasons(r.results[r.i]) ELSE 0])
        /\ UNCHANGED <<backend, now, ticks, storeVars, listing, avail, edition, callers>>

\* Faulty variant: every title counts as playable.
C3_AlwaysAvailable(imdbId) == TRUE

\* Faulty variant: every series with an IMDb id passes the gate.
C14_SeriesAlwaysAvailable(imdbId) == imdbId \in ImdbIds

\* isMovieAvailableOnVidsrc(imdbId) / isTVShowAvailableOnVidsrc(imdbId, 1, 1):
\* true on status 200, false on any other answer or error.
isAvailableOnVidsrc(imdbId) == imdbId \in avail

\* The probe returns.  Not available: unavailable++ and continue.  Available:
\* storage.getMovieByImdbId / getTVShowByImdbId is awaited.
ProbeReturn(t) ==
    LET r == task[t]
    IN  /\ r.pc = "probe"
        /\ SetTask(t, IF isAvailableOnVidsrc(r.imdbId)
                      THEN [r EXCEPT !.pc = "lookup"]
                      ELSE SkipTitle(r, FALSE))
        /\ UNCHANGED <<backend, now, ticks, storeVars, listing, avail, edition, callers>>

\* existingMovie = await storage.getMovieByImdbId(imdbId)
LookupReturn(t) ==
    LET r == task[t]
        existing == IF IsTv(r.op) THEN getTVShowByImdbId(r.imdbId)
                    ELSE getMovieByImdbId(r.imdbId)
    IN  /\ r.pc = "lookup"
        /\ \E outcome \in StorageOutcomes :
              SetTask(t, IF outcome = "error" THEN SkipTitle(r, TRUE)
                         ELSE [r EXCEPT !.pc = "write", !.existing = existing])
        /\ UNCHANGED <<backend, now, ticks, storeVars, listing, avail, edition, callers>>

\* movieData / tvShowData: the InsertMovie the pass builds for the title, the
\* same object for a create and for an update.
TitleData(r) ==
    [title |-> Title(r.results[r.i], r.names),
     imdbId |-> r.imdbId, tmdbId |-> r.results[r.i],
     isFeatured |-> VoteAverage(r.results[r.i]) > 75, isVisible |-> TRUE]

\* Faulty variant: the loop steps by two seasons.
C15_SkipsASeason(r) ==
    LET q == [r EXCEPT !.seasonNum = r.seasonNum + 2, !.eps = <<>>, !.j = 0,
                       !.existing = 0]
    IN  IF q.seasonNum <= q.nSeasons
        THEN [q EXCEPT !.pc = "season",
                       !.called = r.called \cup {<<r.results[r.i], q.seasonNum>>}]
        ELSE NextTitle(q)

\* Faulty variant: the pass goes on to the next title after the first season
\* while the other seasons are still to be expanded.
C26_LeavesSeriesEarly(r) ==
    LET q == [r EXCEPT !.seasonNum = r.seasonNum + 1, !.eps = <<>>, !.j = 0,
                       !.existing = 0]
    IN  IF q.seasonNum <= 1
        THEN [q EXCEPT !.pc = "season",
                       !.called = r.called \cup {<<r.results[r.i], q.seasonNum>>}]
        ELSE NextTitle(q)

\* for (seasonNum = 1; seasonNum <= number_of_seasons; seasonNum++)
\*     await addEpisodesForSeason(tvShowId, tvShow.id, imdbId, seasonNum)
\* whose first statement is the season-detail call (recorded in `called`).
NextSeason(r) ==
    LET q == [r EXCEPT !.seasonNum = r.seasonNum + 1, !.eps = <<>>, !.j = 0,
                       !.existing = 0]
    IN  IF q.seasonNum <= q.nSeasons
        THEN [q EXCEPT !.pc = "season",
                       !.called = r.called \cup {<<r.results[r.i], q.seasonNum>>}]
        ELSE NextTitle(q)

\* After the create or update of the row: a movie is done, a series is expanded.
AfterWrite(r, id) ==
    IF IsTv(r.op) THEN NextSeason([r EXCEPT !.showId = id, !.seasonNum = 0])
    ELSE NextTitle(r)

\* Faulty variant: added++ comes before the awaited create, so that a create
\* that fails is counted as added and, by the catch, as unavailable.
C29_CountsBeforeCreate(t) ==
    LET r == task[t]
        tv == IsTv(r.op)
        table == Catalog(r.op)
        newId == IF tv THEN currentIds.tv ELSE currentIds.movie
        lost == r.existing = 0 /\ UniqueViolation(table, r.imdbId)
        n == IF r.existing # 0 THEN r
             ELSE [r EXCEPT !.added = r.added + 1]
    IN  /\ r.pc = "write"
        /\ \E outcome \in StorageOutcomes :
              IF outcome = "error" \/ lost
              THEN /\ SetTask(t, SkipTitle([n EXCEPT !.raceLost = @ \/ lost], TRUE))
                   /\ UNCHANGED <<movies, tvShows, currentIds>>
              ELSE LET after == IF r.existing # 0
                                THEN UpdateRow(table, r.existing, Stamped(TitleData(r)))
                                ELSE InsertRow(table, newId, Stamped(TitleData(r)))
                       q == IF r.existing # 0
                            THEN [r EXCEPT !.rowsUpdated = r.rowsUpdated + 1]
                            ELSE n
                   IN  /\ SetTask(t, AfterWrite(q, IF r.existing # 0 THEN r.existing
                                                   ELSE newId))
                       /\ IF tv THEN tvShows' = after /\ UNCHANGED movies
                                ELSE movies' = after /\ UNCHANGED tvShows
                       /\ currentIds' =
                              IF r.existing # 0 THEN currentIds
                              ELSE IF tv THEN [currentIds EXCEPT !.tv = @ + 1]
                              ELSE [currentIds EXCEPT !.movie = @ + 1]
        /\ UNCHANGED <<backend, now, ticks, episodes, apiCaches, listing, avail, edition, callers>>

\* if (existing) updateMovie(existing.id, data) else { createMovie(data); added++ }
\* The history counts the updates (rowsUpdated) and notes a create refused by
\* the unique constraint (raceLost).
WriteReturn(t) ==
    LET r == task[t]
        tv == IsTv(r.op)
        table == Catalog(r.op)
        newId == IF tv THEN currentIds.tv ELSE currentIds.movie
        lost == r.existing = 0 /\ UniqueViolation(table, r.imdbId)
    IN  /\ r.pc = "write"
        /\ \E outcome \in StorageOutcomes :
              IF outcome = "error" \/ lost
              THEN /\ SetTask(t, SkipTitle([r EXCEPT !.raceLost = @ \/ lost], TRUE))
                   /\ UNCHANGED <<movies, tvShows, currentIds>>
              ELSE LET after == IF r.existing # 0
                                THEN UpdateRow(table, r.existing, Stamped(TitleData(r)))
                                ELSE InsertRow(table, newId, Stamped(TitleData(r)))
                       q == IF r.existing # 0
                            THEN [r EXCEPT !.rowsUpdated = r.rowsUpdated + 1]
                            ELSE [r EXCEPT !.added = r.added + 1]
                   IN  /\ SetTask(t, AfterWrite(q, IF r.existing # 0 THEN r.existing
                                                   ELSE newId))
                       /\ IF tv THEN tvShows' = after /\ UNCHANGED movies
                                ELSE movies' = after /\ UNCHANGED tvShows
                       /\ currentIds' =
                              IF r.existing # 0 THEN currentIds
                              ELSE IF tv THEN [currentIds EXCEPT !.tv = @ + 1]
                              ELSE [currentIds EXCEPT !.movie = @ + 1]
        /\ UNCHANGED <<backend, now, ticks, episodes, apiCaches, listing, avail, edition, callers>>

\* ---------------------------------------------------- addEpisodesForSeason

\* addEpisodesForSeason keeps its own counters, `let added = 0; let
\* unavailable = 0` (epAdded, epUnavailable here), and returns them.

\* for (const episode of seasonDetails.episodes): the next one, or
\* return { added, unavailable }.
NextEpisode(r) ==
    LET q == [r EXCEPT !.j = r.j + 1, !.existing = 0]
    IN  IF q.j <= Len(q.eps) THEN [q EXCEPT !.pc = "epProbe"]
        ELSE [q EXCEPT !.pc = "seasonEnd"]

\* The per-episode catch and the skip of an episode: unavailable++ on the
\* counter of addEpisodesForSeason.
SkipEpisode(r) == NextEpisode([r EXCEPT !.epUnavailable = r.epUnavailable + 1])

\* Faulty variant: the failure of the season-detail call reaches the catch of
\* the title loop.
C30_FailureSkipsSeries(t) ==
    LET r == task[t]
    IN  /\ r.pc = "season"
        /\ \/ SetTask(t, SkipTitle([r EXCEPT !.failedSeason = r.seasonNum], TRUE))
           \/ \E eps \in EpisodeLists :
                 SetTask(t, NextEpisode([r EXCEPT !.eps = eps, !.j = 0,
                                                  !.epAdded = 0, !.epUnavailable = 0]))
        /\ UNCHANGED <<backend, now, ticks, storeVars, listing, avail, edition, callers>>

\* getTVShowSeasonFromTMDB returns.  A failure is caught by
\* addEpisodesForSeason, which returns {added: 0, unavailable: 0}; the history
\* keeps the season (failedSeason) until the title is left.
SeasonReturn(t) ==
    LET r == task[t]
    IN  /\ r.pc = "season"
        /\ \/ SetTask(t, [r EXCEPT !.pc = "seasonEnd", !.failedSeason = r.seasonNum,
                                   !.epAdded = 0, !.epUnavailable = 0])
           \/ \E eps \in EpisodeLists :
                 SetTask(t, NextEpisode([r EXCEPT !.eps = eps, !.j = 0,
                                                  !.epAdded = 0, !.epUnavailable = 0]))
        /\ UNCHANGED <<backend, now, ticks, storeVars, listing, avail, edition, callers>>

\* isTVShowAvailableOnVidsrc(showImdbId, seasonNumber, episode_number) returns:
\* the answer of the moment.  Not available: unavailable++; continue.
EpisodeProbeReturn(t) ==
    LET r == task[t]
    IN  /\ r.pc = "epProbe"
        /\ \E isAvailable \in BOOLEAN :
              SetTask(t, IF isAvailable THEN [r EXCEPT !.pc = "epLookup"]
                         ELSE SkipEpisode(r))
        /\ UNCHANGED <<backend, now, ticks, storeVars, listing, avail, edition, callers>>

\* existingEpisodes = await storage.getEpisodes(tvShowId, seasonNumber), then
\* the find over them.
EpisodeLookupReturn(t) ==
    LET r == task[t]
        found == FindEpisode(getEpisodes(r.showId, r.seasonNum), r.seasonNum, r.eps[r.j])
    IN  /\ r.pc = "epLookup"
        /\ \E outcome \in StorageOutcomes :
              SetTask(t, IF outcome = "error" THEN SkipEpisode(r)
                         ELSE [r EXCEPT !.pc = "epWrite", !.existing = found])
        /\ UNCHANGED <<backend, now, ticks, storeVars, listing, avail, edition, callers>>

\* if (existingEpisode) updateEpisode(id, data) else { createEpisode(data); added++ }
EpisodeWriteReturn(t) ==
    LET r == task[t]
        data == [tvShowId |-> r.showId, season |-> r.seasonNum, episode |-> r.eps[r.j]]
    IN  /\ r.pc = "epWrite"
        /\ \E outcome \in StorageOutcomes :
              IF outcome = "error"
              THEN /\ SetTask(t, SkipEpisode(r))
                   /\ UNCHANGED <<episodes, currentIds>>
              ELSE IF r.existing # 0
              THEN /\ SetTask(t, NextEpisode(r))
                   /\ episodes' = UpdateRow(episodes, r.existing, data)
                   /\ UNCHANGED currentIds
              ELSE /\ SetTask(t, NextEpisode([r EXCEPT !.epAdded = r.epAdded + 1]))
                   /\ episodes' = InsertRow(episodes, currentIds.episode, data)
                   /\ currentIds' = [currentIds EXCEPT !.episode = @ + 1]
        /\ UNCHANGED <<backend, now, ticks, movies, tvShows, apiCaches, listing, avail, edition, callers>>

\* await addEpisodesForSeason(...) returns in the season loop of the pass.
\* The call is a statement: the {added, unavailable} it returns is not used.
SeasonEndReturn(t) ==
    LET r == task[t]
    IN  /\ r.pc = "seasonEnd"
        /\ SetTask(t, NextSeason([r EXCEPT !.epAdded = 0, !.epUnavailable = 0]))
        /\ UNCHANGED <<backend, now, ticks, storeVars, listing, avail, edition, callers>>

\* ------------------------------------------------- fetchEpisodesFromVidsrc

\* axios.get(endpoint) returns.  An error is rethrown; a body that is not an
\* array returns zeros without caching; an array goes to setCachedData.
VidsrcFetchReturn(t) ==
    LET r == task[t]
    IN  /\ r.pc = "fetch"
        /\ r.op = "fetchEpisodesFromVidsrc"
        /\ \/ SetTask(t, Throw(r))
           \/ SetTask(t, Ended(r, "done"))
           \/ \E feed \in Feeds : SetTask(t, [r EXCEPT !.results = feed, !.pc = "setCache"])
        /\ UNCHANGED <<backend, now, ticks, storeVars, listing, avail, edition, callers>>

\* for (const episode of episodes): the next item, or the function returns.
NextItem(r) ==
    LET q == [r EXCEPT !.i = r.i + 1, !.existing = 0, !.showId = 0]
    IN  IF q.i > Len(q.results) THEN Return(q) ELSE [q EXCEPT !.pc = "showLookup"]

\* Faulty variant: an item whose series is not stored is imported too.
C27_ImportsWithoutSeries(t) ==
    LET r == task[t]
        tvShow == getTVShowByImdbId(r.results[r.i].show_imdb_id)
    IN  /\ r.pc = "showLookup"
        /\ \E outcome \in StorageOutcomes :
              SetTask(t, IF outcome = "error" THEN Throw(r)
                         ELSE [r EXCEPT !.pc = "feedEpisodes", !.showId = tvShow])
        /\ UNCHANGED <<backend, now, ticks, storeVars, listing, avail, edition, callers>>

\* tvShow = await storage.getTVShowByImdbId(episode.show_imdb_id); no show:
\* continue.  Nothing catches an error inside the loop: it is rethrown.
VidsrcShowLookupReturn(t) ==
    LET r == task[t]
        tvShow == getTVShowByImdbId(r.results[r.i].show_imdb_id)
    IN  /\ r.pc = "showLookup"
        /\ \E outcome \in StorageOutcomes :
              SetTask(t, IF outcome = "error" THEN Throw(r)
                         ELSE IF tvShow = 0 THEN NextItem(r)
                         ELSE [r EXCEPT !.pc = "feedEpisodes", !.showId = tvShow])
        /\ UNCHANGED <<backend, now, ticks, storeVars, listing, avail, edition, callers>>

\* existingEpisodes = await storage.getEpisodes(tvShow.id, episode.season),
\* then the find over them.
VidsrcEpisodesReturn(t) ==
    LET r == task[t]
        item == r.results[r.i]
        found == FindEpisode(getEpisodes(r.showId, item.season), item.season, item.episode)
    IN  /\ r.pc = "feedEpisodes"
        /\ \E outcome \in StorageOutcomes :
              SetTask(t, IF outcome = "error" THEN Throw(r)
                         ELSE [r EXCEPT !.pc = "feedWrite", !.existing = found])
        /\ UNCHANGED <<backend, now, ticks, storeVars, listing, avail, edition, callers>>

\* if (existingEpisode) { updateEpisode(...); updated++ }
\* else { createEpisode(...); added++ }
VidsrcWriteReturn(t) ==
    LET r == task[t]
        item == r.results[r.i]
        data == [tvShowId |-> r.showId, season |-> item.season, episode |-> item.episode]
    IN  /\ r.pc = "feedWrite"
        /\ \E outcome \in StorageOutcomes :
              IF outcome = "error"
              THEN /\ SetTask(t, Throw(r))
                   /\ UNCHANGED <<episodes, currentIds>>
              ELSE IF r.existing # 0
              THEN /\ SetTask(t, NextItem([r EXCEPT !.updated = r.updated + 1]))
                   /\ episodes' = UpdateRow(episodes, r.existing, data)
                   /\ UNCHANGED currentIds
              ELSE /\ SetTask(t, NextItem([r EXCEPT !.added = r.added + 1]))
                   /\ episodes' = InsertRow(episodes, currentIds.episode, data)
                   /\ currentIds' = [currentIds EXCEPT !.episode = @ + 1]
        /\ UNCHANGED <<backend, now, ticks, movies, tvShows, apiCaches, listing, avail, edition, callers>>

\* --------------------------------------------------- getAvailableSubtitles
\* getAvailableSubtitles('movie', imdbId) for the title with TMDB id 1.

additionalSubtitles == <<"de", "it", "pt", "ja", "ko", "zh", "ar", "hi", "ru">>

\* The list built from the popularity.
Subtitles(popularity) ==
    commonSubtitles \o SubSeq(additionalSubtitles, 1,
                              IF popularity > 50 THEN 5
                              ELSE IF popularity > 20 THEN 3
                              ELSE IF popularity > 10 THEN 1 ELSE 0)

\* The outer catch: return ['en', 'es', 'fr'].
Fallback(r) == Ended([r EXCEPT !.total = Len(commonSubtitles)], "done")

\* cached = await storage.getCachedData(cacheKey) returns:
\* if (cached && cached.data) return JSON.parse(cached.data), whatever the
\* age of the entry.
SubtitlesCacheReturn(t) ==
    LET r == task[t]
        cached == getCachedData(Endpoint(r.op, r.year, r.page))
        entry == CHOOSE c \in cached : TRUE
    IN  /\ r.pc = "getCache"
        /\ r.op = "getAvailableSubtitles"
        /\ \E outcome \in StorageOutcomes :
              SetTask(t, IF outcome = "error" THEN Fallback(r)
                         ELSE IF cached # {}
                         THEN Ended([r EXCEPT !.hit = TRUE,
                                              !.ageSeen = now - entry.lastUpdated,
                                              !.total = Len(JSONparse(entry.data))], "done")
                         ELSE [r EXCEPT !.pc = "subsLookup"])
        /\ UNCHANGED <<backend, now, ticks, storeVars, listing, avail, edition, callers>>

\* movie = await storage.getMovieByImdbId(imdbId): without a row the
\* popularity stays 0.
SubtitlesLookupReturn(t) ==
    LET r == task[t]
    IN  /\ r.pc = "subsLookup"
        /\ \E outcome \in StorageOutcomes :
              SetTask(t, IF outcome = "error" THEN Fallback(r)
                         ELSE IF getMovieByImdbId(ImdbOf(1)) = 0
                         THEN [r EXCEPT !.results = Subtitles(0), !.pc = "setCache"]
                         ELSE [r EXCEPT !.pc = "subsDetail"])
        /\ UNCHANGED <<backend, now, ticks, storeVars, listing, avail, edition, callers>>

\* getMovieDetailsFromTMDB returns: details.popularity || 0, and 0 when the
\* call fails (the inner catch).
SubtitlesDetailReturn(t) ==
    LET r == task[t]
    IN  /\ r.pc = "subsDetail"
        /\ \E popularity \in Popularities :
              SetTask(t, [r EXCEPT !.results = Subtitles(popularity), !.pc = "setCache"])
        /\ UNCHANGED <<backend, now, ticks, storeVars, listing, avail, edition, callers>>

\* -------------------------------------------------- refreshContentDatabase
\* The calls that refreshContentDatabase awaits run as invocation "A".

ZeroCounts == [added |-> 0, unavailable |-> 0, total |-> 0]

\* const results = { movies: {...0}, tvShows: {...0} }
IdleRefresh ==
    [pc |-> "idle", page |-> 0, pagesToFetch |-> 0,
     results |-> [movies |-> ZeroCounts, tvShows |-> ZeroCounts]]

\* results.movies.added += moviesResult.added; ... unavailable; ... total
Accumulate(counts, result) ==
    [added |-> counts.added + result.added,
     unavailable |-> counts.unavailable + result.unavailable,
     total |-> counts.total + result.total]

\* POST /api/admin/tmdb/refresh-content: refreshContentDatabase(pages) starts
\* its loop at page 1 and awaits getPopularMovies(1).
RefreshStart(pagesToFetch) ==
    /\ refresh.pc = "idle"
    /\ task["A"].pc = "idle"
    /\ refresh' = [IdleRefresh EXCEPT !.pc = "movies", !.page = 1,
                                      !.pagesToFetch = pagesToFetch]
    /\ SetTask("A", NewCall("A", "getPopularMovies", 0, 1))
    /\ UNCHANGED <<backend, now, ticks, storeVars, listing, avail, edition, probe, seed, bulk, route>>

\* await getPopularMovies(page) returns or throws.  Nothing in
\* refreshContentDatabase catches: a throw ends it, and the route answers 500
\* with a message.  Otherwise the counts are added and getPopularTVShows(page)
\* is awaited.
RefreshMoviesReturn ==
    /\ refresh.pc = "movies"
    /\ task["A"].pc \in {"done", "failed"}
    /\ IF task["A"].pc = "failed"
       THEN /\ refresh' = [refresh EXCEPT !.pc = "raised"]
            /\ SetTask("A", IdleTask)
       ELSE /\ refresh' = [refresh EXCEPT
                              !.pc = "tvShows",
                              !.results.movies = Accumulate(@, Result(task["A"]))]
            /\ SetTask("A", NewCall("A", "getPopularTVShows", 0, refresh.page))
    /\ UNCHANGED <<backend, now, ticks, storeVars, listing, avail, edition, probe, seed, bulk, route>>

\* await getPopularTVShows(page) returns or throws.  After the counts are
\* added the loop goes to the next page, or the function returns results.
RefreshTVShowsReturn ==
    /\ refresh.pc = "tvShows"
    /\ task["A"].pc \in {"done", "failed"}
    /\ IF task["A"].pc = "failed"
       THEN /\ refresh' = [refresh EXCEPT !.pc = "raised"]
            /\ SetTask("A", IdleTask)
       ELSE LET counted == [refresh EXCEPT
                              !.results.tvShows = Accumulate(@, Result(task["A"])),
                              !.page = refresh.page + 1]
            IN  IF counted.page <= counted.pagesToFetch
                THEN /\ refresh' = [counted EXCEPT !.pc = "movies"]
                     /\ SetTask("A", NewCall("A", "getPopularMovies", 0, counted.page))
                ELSE /\ refresh' = [counted EXCEPT !.pc = "done"]
                     /\ SetTask("A", IdleTask)
    /\ UNCHANGED <<backend, now, ticks, storeVars, listing, avail, edition, probe, seed, bulk, route>>

\* ------------------------------------------------- the availability probe
\* isMovieAvailableOnVidsrc(imdbId) and isTVShowAvailableOnVidsrc(imdbId,
\* season, episode): one axios.head of the embed URL inside try/catch.

\* The statuses the playback provider answers with.
Statuses == {200, 201, 204, 206, 301, 404, 500, 503}

\* What comes back for a request: an answer with a status, or no answer
\* (DNS, connection, timeout).
Responses == [kind : {"status"}, status : Statuses] \cup {[kind |-> "error", status |-> 0]}

\* axios resolves the promise for a status of 200..299 and rejects it for any
\* other status and for a transport error.
Resolves(response) ==
    response.kind = "status" /\ response.status >= 200 /\ response.status < 300

\* try { response = await axios.head(url); return response.status === 200 }
\* catch (error) { return false }
AvailableOnVidsrc(response) ==
    IF Resolves(response) THEN response.status = 200 ELSE FALSE

\* The embed URLs: movie?imdb=<id> and tv?imdb=<id>&season=<s>&episode=<e>.
EmbedUrls ==
    {<<"movie", imdbId>> : imdbId \in ImdbIds}
       \cup {<<"tv", imdbId, season, episode>> :
                imdbId \in ImdbIds, season \in 1..MaxSeasons + 1, episode \in 1..MaxEpisodes}

IdleProbe == [pc |-> "idle", url |-> <<>>, response |-> [kind |-> "none", status |-> 0],
              result |-> FALSE]

\* The probe is called: the HEAD request is awaited.
ProbeCall(url) ==
    /\ probe.pc = "idle"
    /\ probe' = [IdleProbe EXCEPT !.pc = "head", !.url = url]
    /\ UNCHANGED <<backend, now, ticks, storeVars, listing, avail, edition,
                   refresh, bulk, route, seed, task>>

\* The request is answered or fails, and the probe returns its boolean.
HeadReturn(response) ==
    /\ probe.pc = "head"
    /\ probe' = [probe EXCEPT !.pc = "returned", !.response = response,
                              !.result = AvailableOnVidsrc(response)]
    /\ UNCHANGED <<backend, now, ticks, storeVars, listing, avail, edition,
                   refresh, bulk, route, seed, task>>

\* ---------------------------------------------------------- resetDatabase
\* The script empties the tables through the database connection and seeds
\* them with getPopularMovies(1) and getPopularTVShows(1), which run as
\* invocation "A", each in a retry loop; featureRandomContent follows.

IdleSeed ==
    [pc |-> "idle", phase |-> "none", retries |-> 0, ms |-> 0, toFeature |-> {},
     \* history, read by the properties only
     attempts |-> [movies |-> 0, tvShows |-> 0], slept |-> <<>>]

SeedOp(phase) == IF phase = "movies" THEN "getPopularMovies" ELSE "getPopularTVShows"

\* await sleep(5000 * retries)
Backoff(retries) == 5000 * retries

\* Faulty variant: the error is thrown one failure later.
C28_GivesUpLater(retries) == retries > 3

\* if (retries >= 3) throw error
GivesUp(retries) == retries >= 3

\* The try block of a retry loop: await tmdbApi.getPopularMovies(1) (or
\* getPopularTVShows(1)).
SeedCall(sd, phase) ==
    /\ seed' = [sd EXCEPT !.pc = "call", !.phase = phase,
                          !.attempts[phase] = @ + 1]
    /\ SetTask("A", NewCall("A", SeedOp(phase), 0, 1))

\* resetDatabase() is started: the deletes of the tables are awaited.
SeedStart ==
    /\ seed.pc = "idle"
    /\ task["A"].pc = "idle"
    /\ seed' = [IdleSeed EXCEPT !.pc = "cleaning"]
    /\ UNCHANGED <<backend, now, ticks, storeVars, listing, avail, edition,
                   refresh, bulk, route, probe, task>>

\* The deletes return: the tables are empty, retries = 0 and the first
\* attempt of the movies loop starts; a failed delete goes to the catch of
\* resetDatabase.
SeedCleanReturn ==
    /\ seed.pc = "cleaning"
    /\ \/ /\ movies' = {} /\ tvShows' = {} /\ episodes' = {} /\ apiCaches' = {}
          /\ UNCHANGED currentIds
          /\ SeedCall([seed EXCEPT !.retries = 0], "movies")
       \/ /\ seed' = [seed EXCEPT !.pc = "caught"]
          /\ UNCHANGED <<storeVars, task>>
    /\ UNCHANGED <<backend, now, ticks, listing, avail, edition, refresh, bulk, route, probe>>

\* The awaited sync call returns: break, and the 10 s pause before the series
\* (after the series loop: featureRandomContent awaits storage.getMovies(20)).
\* It throws: retries++ and the backoff sleep is awaited.
SeedCallReturn ==
    /\ seed.pc = "call"
    /\ task["A"].pc \in {"done", "failed"}
    /\ seed' = IF task["A"].pc = "done"
               THEN IF seed.phase = "movies"
                    THEN [seed EXCEPT !.pc = "pause", !.ms = 10000]
                    ELSE [seed EXCEPT !.pc = "getMovies"]
               ELSE [seed EXCEPT !.pc = "backoff", !.retries = @ + 1,
                                 !.ms = Backoff(seed.retries + 1)]
    /\ SetTask("A", IdleTask)
    /\ UNCHANGED <<backend, now, ticks, storeVars, listing, avail, edition,
                   refresh, bulk, route, probe>>

\* The backoff sleep is over: the error is thrown to the catch of
\* resetDatabase after the third failure, otherwise the loop tries again.
SeedBackoffReturn ==
    /\ seed.pc = "backoff"
    /\ now' = now + seed.ms
    /\ LET sd == [seed EXCEPT !.ms = 0, !.slept = Append(@, seed.ms)]
       IN  IF GivesUp(sd.retries)
           THEN seed' = [sd EXCEPT !.pc = "caught"] /\ UNCHANGED task
           ELSE SeedCall(sd, sd.phase)
    /\ UNCHANGED <<backend, ticks, storeVars, listing, avail, edition,
                   refresh, bulk, route, probe>>

\* The pause between the movies and the series is over: retries = 0 and the
\* first attempt of the series loop starts.
SeedPauseReturn ==
    /\ seed.pc = "pause"
    /\ now' = now + seed.ms
    /\ SeedCall([seed EXCEPT !.ms = 0, !.retries = 0, !.slept = Append(@, seed.ms)],
                "tvShows")
    /\ UNCHANGED <<backend, ticks, storeVars, listing, avail, edition,
                   refresh, bulk, route, probe>>

\* movies.slice(0, Math.min(5, movies.length)) of the visible rows.
ToFeature(table) ==
    LET visible == {row.id : row \in {r \in table : r.isVisible}}
    IN  IF Cardinality(visible) <= 5 THEN {visible}
        ELSE {T \in SUBSET visible : Cardinality(T) = 5}

\* featureRandomContent: storage.getMovies(20) (then storage.getTVShows(20))
\* returns; an error is caught by featureRandomContent, which then returns.
SeedListReturn ==
    /\ seed.pc \in {"getMovies", "getTVShows"}
    /\ \E outcome \in StorageOutcomes :
          IF outcome = "error" THEN seed' = [seed EXCEPT !.pc = "done"]
          ELSE \E ids \in ToFeature(IF seed.pc = "getMovies" THEN movies ELSE tvShows) :
                  seed' = IF ids # {}
                          THEN [seed EXCEPT !.toFeature = ids,
                                   !.pc = IF seed.pc = "getMovies" THEN "featureMovie"
                                          ELSE "featureShow"]
                          ELSE [seed EXCEPT !.pc = IF seed.pc = "getMovies"
                                                   THEN "getTVShows" ELSE "done"]
    /\ UNCHANGED <<backend, now, ticks, storeVars, listing, avail, edition,
                   refresh, bulk, route, probe, task>>

\* await storage.updateMovie(movie.id, { isFeatured: true }) (updateTVShow for
\* the series) returns, for the next row of the list.
SeedFeatureReturn ==
    /\ seed.pc \in {"featureMovie", "featureShow"}
    /\ \E outcome \in StorageOutcomes, id \in seed.toFeature :
          IF outcome = "error"
          THEN seed' = [seed EXCEPT !.pc = "done", !.toFeature = {}]
               /\ UNCHANGED <<movies, tvShows>>
          ELSE /\ IF seed.pc = "featureMovie"
                  THEN /\ movies' = UpdateRow(movies, id, Stamped([isFeatured |-> TRUE]))
                       /\ UNCHANGED tvShows
                  ELSE /\ tvShows' = UpdateRow(tvShows, id, Stamped([isFeatured |-> TRUE]))
                       /\ UNCHANGED movies
               /\ seed' = [seed EXCEPT
                             !.toFeature = @ \ {id},
                             !.pc = IF seed.toFeature # {id} THEN @
                                    ELSE IF @ = "featureMovie" THEN "getTVShows"
                                    ELSE "done"]
    /\ UNCHANGED <<backend, now, ticks, episodes, apiCaches, currentIds, listing, avail,
                   edition, refresh, bulk, route, probe, task>>

\* ------------------------------------------------ the admin year imports
\* Texts are sequences of characters.

Digits == <<"0", "1", "2", "3", "4", "5", "6", "7", "8", "9">>

IsDigit(c) == \E d \in 1..10 : Digits[d] = c

DigitValue(c) == (CHOOSE d \in 1..10 : Digits[d] = c) - 1

RECURSIVE LeadingDigits(_, _, _)
\* The number spelled by the digits of text from position k on, up to the
\* first character that is not a digit.
LeadingDigits(text, k, acc) ==
    IF k > Len(text) \/ ~IsDigit(text[k]) THEN acc
    ELSE LeadingDigits(text, k + 1, acc * 10 + DigitValue(text[k]))

\* parseInt(text) for texts without sign, blanks or radix prefix: <<>> is NaN,
\* <<n>> the number n.  It reads the longest prefix of digits and ignores the
\* rest of the text.
parseInt(text) ==
    IF text = <<>> \/ ~IsDigit(text[1]) THEN <<>>
    ELSE <<LeadingDigits(text, 1, 0)>>

isNaN(v) == v = <<>>

RECURSIVE ToText(_)
\* `${year}` and year.toString() of a natural number.
ToText(n) ==
    IF n < 10 THEN <<Digits[n + 1]>>
    ELSE Append(ToText(n \div 10), Digits[(n % 10) + 1])

\* new Date().getFullYear()
CurrentYear == 2025

\* What an <Input type="number"> can hold: a numeral or nothing.
YearTexts ==
    {<<>>, ToText(1899), ToText(1900), ToText(CurrentYear - 5),
     ToText(CurrentYear - 1), ToText(CurrentYear), ToText(CurrentYear + 1)}

\* What the :year segment of a request path can hold.
PathTexts == YearTexts \cup {<<"a", "b", "c">>, Append(ToText(CurrentYear), "x")}

ContentTypes == {"movie", "tv"}

\* Faulty variant: only a year that is not a number is refused.
C20_OnlyNaNRefused(v) == isNaN(v)

\* isNaN(year) || year < 1900 || year > new Date().getFullYear()
InvalidYear(v) == isNaN(v) \/ v[1] < 1900 \/ v[1] > CurrentYear

IdleRoute == [pc |-> "idle", from |-> "none", type |-> "none", year |-> <<>>,
              status |-> 0, body |-> [message |-> "none"]]

\* apiRequest('POST', `/api/admin/tmdb/movies/${year}?page=${page}`), or
\* .../tvshows/...: the request is on its way to the server.
Request(from, type, year) ==
    [IdleRoute EXCEPT !.pc = "requested", !.from = from, !.type = type, !.year = year]

\* A client other than the bulk import posts to the route.
DirectRequest(type, year) ==
    /\ route.pc = "idle"
    /\ bulk.pc = "idle"
    /\ task["A"].pc = "idle"
    /\ route' = Request("direct", type, year)
    /\ UNCHANGED <<backend, now, ticks, storeVars, listing, avail, edition, probe, seed, refresh, bulk, task>>

\* History: the answer of the route to a request of the bulk import.
Logged(status, added) ==
    IF route.from = "bulk"
    THEN [bulk EXCEPT !.answers = Append(@, [year |-> route.year, status |-> status,
                                             added |-> added])]
    ELSE bulk

\* The route handler up to its await: 400 for an invalid year, otherwise
\* tmdbApi.discoverMoviesByYear(year, page) (discoverTVShowsByYear on the
\* tvshows route) is called; page is 1 where the query names no other.
RouteYear ==
    /\ route.pc = "requested"
    /\ LET year == parseInt(route.year)
       IN  IF InvalidYear(year)
           THEN /\ route' = [route EXCEPT !.pc = "answered", !.status = 400,
                               !.body = [message |-> "Valid year parameter is required"]]
                /\ bulk' = Logged(400, 0)
                /\ UNCHANGED task
           ELSE /\ task["A"].pc = "idle"
                /\ route' = [route EXCEPT !.pc = "calling"]
                /\ SetTask("A", NewCall("A", IF route.type = "movie"
                                               THEN "discoverMoviesByYear"
                                               ELSE "discoverTVShowsByYear", year[1], 1))
                /\ UNCHANGED bulk
    /\ UNCHANGED <<backend, now, ticks, storeVars, listing, avail, edition, probe, seed, refresh>>

\* res.json(result), or the catch of the route: res.status(500).json(...).
RouteReturn ==
    /\ route.pc = "calling"
    /\ task["A"].pc \in {"done", "failed"}
    /\ route' = IF task["A"].pc = "done"
                THEN [route EXCEPT !.pc = "answered", !.status = 200,
                                   !.body = Result(task["A"])]
                ELSE [route EXCEPT !.pc = "answered", !.status = 500,
                                   !.body = [message |-> "Failed to fetch by year from TMDB"]]
    /\ bulk' = IF task["A"].pc = "done" THEN Logged(200, task["A"].added)
                                        ELSE Logged(500, 0)
    /\ SetTask("A", IdleTask)
    /\ UNCHANGED <<backend, now, ticks, storeVars, listing, avail, edition, probe, seed, refresh>>

\* The other client has its answer.
DirectResponse ==
    /\ route.pc = "answered"
    /\ route.from = "direct"
    /\ route' = IdleRoute
    /\ UNCHANGED <<backend, now, ticks, storeVars, listing, avail, edition, probe, seed, refresh, bulk, task>>

\* useState of tmdbContentType, tmdbYearRange and bulkImportProgress, and the
\* position of handleBulkImport with its locals.
IdleBulk ==
    [pc |-> "idle", type |-> "movie",
     start |-> ToText(CurrentYear - 5), end |-> ToText(CurrentYear),
     startYear |-> 0, endYear |-> 0, year |-> 0, delay |-> 0,
     progress |-> [isImporting |-> FALSE, currentYear |-> 0, totalYears |-> 0,
                   processedCount |-> 0, errorCount |-> 0],
     toast |-> "none",
     \* history, read by the properties only
     asked |-> FALSE, confirmed |-> FALSE, answers |-> <<>>]

\* onValueChange of the content type Select (disabled while importing).
SelectContentType(type) ==
    /\ bulk.pc = "idle"
    /\ ~bulk.progress.isImporting
    /\ bulk.type # type
    /\ bulk' = [bulk EXCEPT !.type = type]
    /\ UNCHANGED <<backend, now, ticks, storeVars, listing, avail, edition, probe, seed, refresh, route, task>>

\* onChange of the Start Year and End Year inputs (disabled while importing).
EditYearRange(start, end) ==
    /\ bulk.pc = "idle"
    /\ ~bulk.progress.isImporting
    /\ <<start, end>> # <<bulk.start, bulk.end>>
    /\ bulk' = [bulk EXCEPT !.start = start, !.end = end]
    /\ UNCHANGED <<backend, now, ticks, storeVars, listing, avail, edition, probe, seed, refresh, route, task>>

\* Faulty variant: after the last year isImporting is left as it is.
C23_StaysImporting(b) ==
    IF b.year <= b.endYear
    THEN /\ bulk' = [b EXCEPT !.pc = "awaiting", !.progress.currentYear = b.year]
         /\ route' = [IdleRoute EXCEPT !.pc = "requested", !.from = "bulk",
                                       !.type = b.type, !.year = ToText(b.year)]
    ELSE /\ bulk' = [b EXCEPT !.pc = "idle", !.toast = "Bulk Import Completed"]
         /\ UNCHANGED route

\* Faulty variant: the loop ends at the first year that failed.
C22_StopsAtError(b) ==
    IF b.year <= b.endYear /\ b.progress.errorCount = 0
    THEN /\ bulk' = [b EXCEPT !.pc = "awaiting", !.progress.currentYear = b.year]
         /\ route' = [IdleRoute EXCEPT !.pc = "requested", !.from = "bulk",
                                       !.type = b.type, !.year = ToText(b.year)]
    ELSE /\ bulk' = [b EXCEPT !.pc = "idle", !.progress.isImporting = FALSE,
                              !.toast = "Bulk Import Completed"]
         /\ UNCHANGED route

\* The body of the year loop up to its await: currentYear is set and
\* fetchTmdbContentMutation.mutateAsync({type, year, page: 1}) is awaited.
\* After the last year: isImporting false and the completion toast.
BulkYear(b) ==
    IF b.year <= b.endYear
    THEN /\ bulk' = [b EXCEPT !.pc = "awaiting", !.progress.currentYear = b.year]
         /\ route' = Request("bulk", b.type, ToText(b.year))
    ELSE /\ bulk' = [b EXCEPT !.pc = "idle", !.progress.isImporting = FALSE,
                              !.toast = "Bulk Import Completed"]
         /\ UNCHANGED route

\* Faulty variant: only a range of more than ten years is asked about.
C21_AsksAboveTen(totalYears) == totalYears > 2 * 5

\* if (totalYears > 5) { const confirmed = window.confirm(...) ... }
NeedsConfirmation(totalYears) == totalYears > 5

\* A click on the bulk import button (disabled while importing and while a
\* year request is pending): handleBulkImport up to its first await, with
\* the answer to window.confirm where it is asked.
BulkClick(confirmed) ==
    /\ bulk.pc = "idle"
    /\ ~bulk.progress.isImporting
    /\ route.pc = "idle"
    /\ LET startYear == parseInt(bulk.start)
           endYear == parseInt(bulk.end)
           b == [bulk EXCEPT !.asked = FALSE, !.confirmed = FALSE, !.answers = <<>>]
       IN  IF InvalidYear(startYear)
           THEN bulk' = [b EXCEPT !.toast = "Invalid Start Year"] /\ UNCHANGED route
           ELSE IF InvalidYear(endYear)
           THEN bulk' = [b EXCEPT !.toast = "Invalid End Year"] /\ UNCHANGED route
           ELSE IF startYear[1] > endYear[1]
           THEN bulk' = [b EXCEPT !.toast = "Invalid Year Range"] /\ UNCHANGED route
           ELSE LET totalYears == endYear[1] - startYear[1] + 1
                    asked == NeedsConfirmation(totalYears)
                    c == [b EXCEPT !.asked = asked, !.confirmed = asked /\ confirmed,
                                   !.toast = "none"]
                IN  IF asked /\ ~confirmed
                    THEN bulk' = c /\ UNCHANGED route
                    ELSE /\ totalYears <= MaxBulkYears
                         /\ BulkYear([c EXCEPT
                                !.startYear = startYear[1], !.endYear = endYear[1],
                                !.year = startYear[1],
                                !.progress = [isImporting |-> TRUE,
                                              currentYear |-> startYear[1],
                                              totalYears |-> totalYears,
                                              processedCount |-> 0,
                                              errorCount |-> 0]])
    /\ UNCHANGED <<backend, now, ticks, storeVars, listing, avail, edition, probe, seed, refresh, task>>

\* apiRequest throws unless the response is ok (2xx).
apiRequestThrows(status) == status < 200 \/ status >= 300

\* data.processed || 0
Processed(data) == IF "processed" \in DOMAIN data THEN data.processed ELSE 0

\* The awaited request is answered.  With 2xx, response.json() is read,
\* processedCount grows by data.processed || 0 and a delay of 1000 ms starts;
\* otherwise the request throws: errorCount grows and a delay of 3000 ms starts.
BulkResponse ==
    /\ bulk.pc = "awaiting"
    /\ route.pc = "answered"
    /\ route.from = "bulk"
    /\ bulk' = IF ~apiRequestThrows(route.status)
               THEN [bulk EXCEPT !.pc = "delay", !.delay = 1000,
                        !.progress.processedCount = @ + Processed(route.body)]
               ELSE [bulk EXCEPT !.pc = "delay", !.delay = 3000,
                        !.progress.errorCount = @ + 1]
    /\ route' = IdleRoute
    /\ UNCHANGED <<backend, now, ticks, storeVars, listing, avail, edition, probe, seed, refresh, task>>

\* The timer of the delay fires: year++ and the loop goes on.  (The clock
\* is advanced by Tick alone.)
BulkDelayReturn ==
    /\ bulk.pc = "delay"
    /\ BulkYear([bulk EXCEPT !.year = bulk.year + 1, !.delay = 0])
    /\ UNCHANGED <<backend, now, ticks, storeVars, listing, avail, edition, probe, seed, refresh, task>>

\* ------------------------------------------------------------- environment

\* The record of a call that has returned or thrown is dropped: the next
\* request takes its place.
Forget(t) ==
    /\ task[t].pc \in {"done", "failed"}
    /\ SetTask(t, IdleTask)
    /\ UNCHANGED <<backend, now, ticks, storeVars, listing, avail, edition, callers>>

\* The provider's listing changes.
UpstreamChange(pages) ==
    /\ \E page \in pages \ {listing} : listing' = page
    /\ UNCHANGED <<backend, now, ticks, storeVars, avail, edition, callers, task>>

\* The provider renames its titles.
TitleChange ==
    /\ edition = 1
    /\ edition' = 2
    /\ UNCHANGED <<backend, now, ticks, storeVars, listing, avail, callers, task>>

\* A title becomes playable or stops being playable.
ProbeChange ==
    /\ \E imdbId \in ImdbIds :
          avail' = IF imdbId \in avail THEN avail \ {imdbId} ELSE avail \cup {imdbId}
    /\ UNCHANGED <<backend, now, ticks, storeVars, listing, edition, callers, task>>

\* Time passes.
Tick(d) ==
    /\ ticks < MaxTicks
    /\ now' = now + d
    /\ ticks' = ticks + 1
    /\ UNCHANGED <<backend, storeVars, listing, avail, edition, callers, task>>

\* PATCH /api/admin/movies/:id and /api/admin/tvshows/:id with a body that sets
\* isVisible or isFeatured: storage.updateMovie(id, req.body).
AdminPatch ==
    /\ \E patch \in {[isVisible |-> FALSE], [isFeatured |-> FALSE]} :
          \/ \E m \in movies :
                /\ Merge(m, patch) # m
                /\ movies' = UpdateRow(movies, m.id, Stamped(patch))
                /\ UNCHANGED tvShows
          \/ \E s \in tvShows :
                /\ Merge(s, patch) # s
                /\ tvShows' = UpdateRow(tvShows, s.id, Stamped(patch))
                /\ UNCHANGED movies
    /\ UNCHANGED <<backend, now, ticks, episodes, apiCaches, currentIds,
                   listing, avail, edition, callers, task>>

\* ------------------------------------------------------------ specification

\* new MemStorage() / an empty database; the world outside in any state.
Init ==
    /\ backend \in Backends
    /\ now = 0
    /\ ticks = 0
    /\ movies = {}
    /\ tvShows = {}
    /\ episodes = {}
    /\ apiCaches = {}
    /\ currentIds = [movie |-> 1, tv |-> 1, episode |-> 1, cache |-> 1]
    /\ listing \in Pages
    /\ avail \in SUBSET ImdbIds
    /\ edition = 1
    /\ refresh = IdleRefresh
    /\ bulk = IdleBulk
    /\ route = IdleRoute
    /\ probe = IdleProbe
    /\ seed = IdleSeed
    /\ task = [t \in Tasks |-> IdleTask]

\* The steps of a call of a discovery operation, up to the row of a title.
TitleStep(t) ==
    \/ GetCacheReturn(t)
    \/ FetchReturn(t)
    \/ SetCachedMem(t)
    \/ SetCachedSelect(t)
    \/ SetCachedWrite(t)
    \/ DetailReturn(t)
    \/ ProbeReturn(t)
    \/ LookupReturn(t)
    \/ WriteReturn(t)

\* The steps of the season expansion of a series.
EpisodeStep(t) ==
    \/ SeasonReturn(t)
    \/ EpisodeProbeReturn(t)
    \/ EpisodeLookupReturn(t)
    \/ EpisodeWriteReturn(t)
    \/ SeasonEndReturn(t)

Step(t) == TitleStep(t) \/ EpisodeStep(t)

\* The steps of fetchEpisodesFromVidsrc after its cache check.
VidsrcStep(t) ==
    \/ VidsrcFetchReturn(t)
    \/ VidsrcShowLookupReturn(t)
    \/ VidsrcEpisodesReturn(t)
    \/ VidsrcWriteReturn(t)

\* The steps of getAvailableSubtitles before its setCachedData.
SubtitlesStep(t) ==
    \/ SubtitlesCacheReturn(t)
    \/ SubtitlesLookupReturn(t)
    \/ SubtitlesDetailReturn(t)

Running(t) == task[t].pc \notin {"idle", "done", "failed"}

\* One invocation at a time: B is called after A has returned or thrown.  A
\* movie call and a series call share no table and no cache entry, so B is of
\* the kind of A.
Sequential ==
    \/ \E op \in TmdbOps : StartSync("A", op)
    \/ Step("A")
    \/ /\ ~Running("A") /\ task["A"].pc # "idle"
       /\ \E op \in TmdbOps : IsTv(op) = IsTv(task["A"].op) /\ StartSync("B", op)
    \/ Step("B")

\* Time passes between the invocations.  The listing and the probe answers
\* are those of the initial state throughout.
Between ==
    /\ ~Running("A") /\ task["A"].pc # "idle" /\ task["B"].pc = "idle"
    /\ \E d \in {1, YearTTL - 1} : Tick(d)

Next == Sequential \/ Between

Spec == Init /\ [][Next]_vars

\* One invocation at a time, and between the two an administrator edits rows
\* and titles become playable or stop being playable.
Administered ==
    \/ Sequential
    \/ /\ ~Running("A") /\ task["A"].pc # "idle" /\ task["B"].pc = "idle"
       /\ (AdminPatch \/ ProbeChange)

SpecAdmin == Init /\ [][Administered]_vars

\* The call has returned or thrown.
Returned(t) == ~Running(t) /\ task[t].pc # "idle"

\* Series sync and episode import, one call after the other, the clock moving
\* between them.
EpisodeOps == {"discoverTVShowsByYear", "fetchEpisodesFromVidsrc"}

Importing ==
    \/ \E op \in EpisodeOps : StartSync("A", op)
    \/ \E op \in EpisodeOps : Returned("A") /\ StartSync("B", op)
    \/ \E t \in Tasks : Step(t)
    \/ \E t \in Tasks : VidsrcStep(t)
    \/ Returned("A") /\ task["B"].pc = "idle" /\ (\E d \in {1, LatestTTL - 1} : Tick(d))

SpecEpisodes == Init /\ [][Importing]_vars

\* Movie sync and subtitle lookups, one call after the other, the clock moving
\* between them.
SubtitleOps == {"discoverMoviesByYear", "getAvailableSubtitles"}

Subtitling ==
    \/ \E op \in SubtitleOps : StartSync("A", op)
    \/ \E op \in SubtitleOps : Returned("A") /\ StartSync("B", op)
    \/ \E t \in Tasks : TitleStep(t)
    \/ \E t \in Tasks : SubtitlesStep(t)
    \/ Returned("A") /\ task["B"].pc = "idle" /\ (\E d \in {1, YearTTL - 1} : Tick(d))

SpecSubtitles == Init /\ [][Subtitling]_vars

\* Overlapping invocations: nothing in the code keeps a second request from
\* being served while a first one is suspended at an await.
MovieOps == {"discoverMoviesByYear", "getPopularMovies"}

Overlapping ==
    \/ \E t \in Tasks, op \in MovieOps : StartSync(t, op)
    \/ \E t \in Tasks : TitleStep(t)
    \/ Tick(1)

SpecConc == Init /\ [][Overlapping]_vars

\* The cache under repeated and overlapping year-discovery calls of one
\* (year, page), while time passes and the listing changes between an empty
\* page and a page of one title without IMDb id: the calls differ in what they
\* cache only.
CachePages == {<<>>, <<3>>}

InitCache == Init /\ avail = {} /\ listing \in CachePages

Refreshing ==
    \/ \E t \in Tasks : StartSync(t, "discoverMoviesByYear")
    \/ \E t \in Tasks : GetCacheReturn(t)
    \/ \E t \in Tasks : FetchReturn(t)
    \/ \E t \in Tasks : SetCachedMem(t)
    \/ \E t \in Tasks : SetCachedSelect(t)
    \/ \E t \in Tasks : SetCachedWrite(t)
    \/ \E t \in Tasks : DetailReturn(t)
    \/ \E t \in Tasks : Forget(t)
    \/ UpstreamChange(CachePages)
    \/ \E d \in {1, YearTTL} : Tick(d)

SpecCache == InitCache /\ [][Refreshing]_vars

\* Pages that list the long-running series and a series without seasons,
\* each at most once.
SeasonPages == {<<LongSeries>>, <<2>>, <<LongSeries, 2>>, <<2, LongSeries>>}

InitSeasons ==
    /\ backend \in Backends
    /\ now = 0
    /\ ticks = 0
    /\ movies = {}
    /\ tvShows = {}
    /\ episodes = {}
    /\ apiCaches = {}
    /\ currentIds = [movie |-> 1, tv |-> 1, episode |-> 1, cache |-> 1]
    /\ listing \in SeasonPages
    /\ avail = {ImdbOf(2), ImdbOf(LongSeries)}
    /\ edition = 1
    /\ refresh = IdleRefresh
    /\ bulk = IdleBulk
    /\ route = IdleRoute
    /\ probe = IdleProbe
    /\ seed = IdleSeed
    /\ task = [t \in Tasks |-> IdleTask]

\* A series year sync and then a popular-series import of the same page: the
\* second pass meets the rows of the first.
Expanding ==
    \/ StartSync("A", "discoverTVShowsByYear")
    \/ Returned("A") /\ StartSync("B", "getPopularTVShows")
    \/ \E t \in Tasks : Step(t)

SpecSeasons == InitSeasons /\ [][Expanding]_vars

\* A movie year sync called again for its (year, page) after it returned;
\* between the two calls time passes and the provider renames its titles.
Resyncing ==
    \/ StartSync("A", "discoverMoviesByYear")
    \/ Returned("A") /\ StartSync("B", "discoverMoviesByYear")
    \/ \E t \in Tasks : TitleStep(t)
    \/ /\ Returned("A") /\ task["B"].pc = "idle"
       /\ (TitleChange \/ \E d \in {1, YearTTL} : Tick(d))

SpecResync == Init /\ [][Resyncing]_vars

\* One refresh of the popular listings over 1..MaxRefreshPages pages.
Refreshed ==
    \/ \E pagesToFetch \in 1..MaxRefreshPages : RefreshStart(pagesToFetch)
    \/ RefreshMoviesReturn
    \/ RefreshTVShowsReturn
    \/ Step("A")

SpecRefresh == Init /\ [][Refreshed]_vars

\* The admin panel's bulk import and other clients of the year routes, over
\* a provider page of at most one title; no series with seasons is playable.
InitBulk ==
    /\ Init
    /\ Len(listing) <= 1
    /\ avail = {ImdbOf(2)}

\* The form is filled in before the first click, and imports are started
\* as long as no provider page has been cached.
Imported ==
    \/ /\ bulk.toast = "none" /\ ~bulk.asked /\ apiCaches = {}
       /\ \/ \E type \in ContentTypes : SelectContentType(type)
          \/ \E start, end \in YearTexts : EditYearRange(start, end)
    \/ apiCaches = {} /\ \E confirmed \in BOOLEAN : BulkClick(confirmed)
    \/ BulkResponse
    \/ BulkDelayReturn
    \/ /\ apiCaches = {}
       /\ \E type \in ContentTypes, year \in PathTexts : DirectRequest(type, year)
    \/ RouteYear
    \/ RouteReturn
    \/ DirectResponse
    \/ TitleStep("A")

SpecBulk == InitBulk /\ [][Imported]_vars

\* The bulk import alone, with the scheduling of the event loop: a response
\* that has arrived is handled, a timer fires, the server serves a request
\* and a sync call goes on whenever its awaited call has returned or failed.
BulkOnly ==
    \/ /\ bulk.toast = "none" /\ ~bulk.asked /\ apiCaches = {}
       /\ \/ \E type \in ContentTypes : SelectContentType(type)
          \/ \E start, end \in YearTexts : EditYearRange(start, end)
    \/ apiCaches = {} /\ \E confirmed \in BOOLEAN : BulkClick(confirmed)
    \/ BulkResponse
    \/ BulkDelayReturn
    \/ RouteYear
    \/ RouteReturn
    \/ TitleStep("A")

SpecBulkFair ==
    /\ InitBulk
    /\ [][BulkOnly]_vars
    /\ WF_vars(BulkResponse)
    /\ WF_vars(BulkDelayReturn)
    /\ WF_vars(RouteYear)
    /\ WF_vars(RouteReturn)
    /\ WF_vars(TitleStep("A"))

\* Calls of the probe for every embed URL and every answer.
Probing ==
    \/ \E url \in EmbedUrls : ProbeCall(url)
    \/ \E response \in Responses : HeadReturn(response)

SpecProbe == Init /\ [][Probing]_vars

\* One run of the reset script in a fresh process.
InitSeed == Init /\ Len(listing) <= 2

Seeding ==
    \/ SeedStart
    \/ SeedCleanReturn
    \/ SeedCallReturn
    \/ SeedBackoffReturn
    \/ SeedPauseReturn
    \/ SeedListReturn
    \/ SeedFeatureReturn
    \/ Step("A")

SpecSeed == InitSeed /\ [][Seeding]_vars

\* ------------------------------------------------------------- properties

UniqueImdbId(table) ==
    \A r1, r2 \in table : r1.imdbId = r2.imdbId => r1.id = r2.id

\* C1: after any sequence of non-overlapping sync calls no two movie rows and
\* no two series rows share an IMDb id, and a call that is about to create a
\* row (its lookup returned absent) finds no row of that id in the table.
C1_NoDuplicateTitles ==
    /\ UniqueImdbId(movies)
    /\ UniqueImdbId(tvShows)
    /\ \A t \in Tasks :
          task[t].pc = "write" /\ task[t].existing = 0
              => \A r \in Catalog(task[t].op) : r.imdbId # task[t].imdbId

\* The second call meets the row the first one created, and is about to
\* update it.
C1_Witness ==
    /\ task["B"].pc = "write"
    /\ task["B"].existing # 0
    /\ task["B"].op # task["A"].op

\* The positions of the page whose title has no IMDb id or is not playable.
Unplayable == {i \in 1..Len(listing) : ImdbOf(listing[i]) \notin avail}

\* C3: the step in which the probe of a title answers false writes no row,
\* adds one to `unavailable` and moves the pass to its next title, so that the
\* title gets neither a create nor an update in the pass, also when it has a
\* row from an earlier pass; and a pass in which no title failed returns
\* `unavailable` = the number of listed titles that are not playable.
C3_UnavailableSkipped ==
    [][\A t \in Tasks :
          /\ task[t].pc = "probe" /\ task'[t] # task[t] /\ task[t].imdbId \notin avail
                => /\ <<movies, tvShows, episodes>>' = <<movies, tvShows, episodes>>
                   /\ task'[t].unavailable = task[t].unavailable + 1
                   /\ task'[t].added = task[t].added
                   /\ task'[t].pc \in {"detail", "done"}
                   /\ task'[t].pc = "detail" => task'[t].i = task[t].i + 1
          /\ task[t].pc # "done" /\ task'[t].pc = "done"
                /\ ~task'[t].hit /\ task'[t].clean
                => task'[t].unavailable = Cardinality(Unplayable)]_vars

\* The second pass has skipped a title that stopped being playable after the
\* first pass gave it a row.
C3_Witness ==
    /\ task["B"].pc = "done" /\ ~task["B"].hit /\ task["B"].clean
    /\ task["B"].unavailable = 1 /\ task["B"].added = 0
    /\ \E r \in Catalog(task["B"].op) :
          /\ r.imdbId \notin avail
          /\ \E i \in 1..Len(listing) : ImdbOf(listing[i]) = r.imdbId

C6_FreshHitShortCircuits ==
    [][\A t \in Tasks :
          task'[t].hit /\ ~task[t].hit
              => /\ task[t].pc = "getCache"
                 /\ task'[t].pc = "done"
                 /\ task'[t].added = 0 /\ task'[t].unavailable = 0
                 /\ task'[t].total
                       = Len(JSONparse(CachedEntry(Endpoint(task'[t].op, task'[t].year, task'[t].page)).data).results)
                 /\ storeVars' = storeVars]_vars

\* A call has returned from a fresh entry of a page with titles in it.
C6_Witness ==
    /\ task["B"].hit /\ task["B"].pc = "done" /\ task["B"].total = 2
    /\ Cardinality(movies) = 2

\* C7: a year-discovery call that finds an entry uses it iff its age is below
\* 24 hours (86,400,000 ms); a call that refetched and returned has left an
\* entry written at its own time.
C7_YearDiscoveryTTL ==
    \A t \in Tasks :
        IsYearOp(task[t].op) /\ task[t].ageSeen >= 0
            => /\ task[t].hit <=> task[t].ageSeen < 86400000
               /\ task[t].pc = "done" /\ ~task[t].hit
                     => CachedEntry(Endpoint(task[t].op, task[t].year, task[t].page)).lastUpdated = now

\* An entry of age exactly 24 hours was found stale and overwritten.
C7_Witness ==
    /\ IsYearOp(task["B"].op) /\ task["B"].ageSeen = 86400000
    /\ task["B"].pc = "done" /\ ~task["B"].hit
    /\ CachedEntry(Endpoint(task["B"].op, task["B"].year, task["B"].page)).lastUpdated = now

\* C2 as stated: whatever the interleaving of two overlapping sync calls, no
\* two rows of a kind share an IMDb id.
C2_NoDuplicateTitlesUnderOverlap ==
    UniqueImdbId(movies) /\ UniqueImdbId(tvShows)

\* The step of call t in which its setCachedData completes.
SetCompletes(t) ==
    /\ task[t].pc \in {"setCache", "setCacheWrite"}
    /\ task'[t].pc \in {"detail", "done"}

\* C9 as stated: there is at most one entry per endpoint, and when a
\* setCachedData completes, getCachedData returns its payload, with a
\* lastUpdated not earlier than that of the entry it replaced.
C9_CacheUpsert ==
    [][/\ \A c1, c2 \in apiCaches' : c1.endpoint = c2.endpoint => c1 = c2
       /\ \A t \in Tasks :
             SetCompletes(t) =>
                 LET endpoint == Endpoint(task[t].op, task[t].year, task[t].page)
                 IN  /\ getCachedData(endpoint)' # {}
                     /\ JSONparse(CachedEntry(endpoint)'.data)
                            = Payload(task[t].op, task[t].results)
                     /\ getCachedData(endpoint) # {} =>
                            CachedEntry(endpoint)'.lastUpdated
                                >= CachedEntry(endpoint).lastUpdated]_vars

\* The flags of the rows that exist before and after a step are the same.
FlagsKept(before, after) ==
    \A r \in before, q \in after :
        q.id = r.id => q.isFeatured = r.isFeatured /\ q.isVisible = r.isVisible

\* C10 as stated: the step in which a sync call updates or creates the row of
\* a title leaves isFeatured and isVisible of every existing row as they were.
C10_SyncKeepsFlags ==
    [][(\E t \in Tasks : task[t].pc = "write" /\ task'[t] # task[t])
          => FlagsKept(movies, movies') /\ FlagsKept(tvShows, tvShows')]_vars

\* The episode rows of a show, season and episode number.
EpisodeRows(tvShowId, season, episode) ==
    {e \in episodes : e.tvShowId = tvShowId /\ e.season = season /\ e.episode = episode}

\* C5: after any sequence of non-overlapping series syncs and episode imports
\* no two episode rows share (tvShowId, season, episode), and a call that is
\* about to create an episode (its lookup found none) finds no row of that
\* show, season and number; the provider's lists may repeat a number.
C5_UniqueEpisodes ==
    /\ \A e1, e2 \in episodes :
          e1.tvShowId = e2.tvShowId /\ e1.season = e2.season /\ e1.episode = e2.episode
              => e1.id = e2.id
    /\ \A t \in Tasks :
          LET r == task[t]
          IN  /\ r.pc = "epWrite" /\ r.existing = 0
                    => EpisodeRows(r.showId, r.seasonNum, r.eps[r.j]) = {}
              /\ r.pc = "feedWrite" /\ r.existing = 0
                    => EpisodeRows(r.showId, r.results[r.i].season,
                                   r.results[r.i].episode) = {}

\* The import meets the episode that the series sync created, and is about to
\* update it.
C5_Witness ==
    /\ task["A"].op = "discoverTVShowsByYear" /\ task["A"].pc = "done"
    /\ task["B"].pc = "feedWrite" /\ task["B"].existing # 0
    /\ Cardinality(episodes) = 1

\* The TTL the readers are said to apply: 1 hour for the latest and popular
\* listings, 24 hours for year discovery and subtitle lookups.
StatedTTL(op) ==
    IF op \in {"getPopularMovies", "getPopularTVShows", "fetchEpisodesFromVidsrc"}
    THEN 60 * 60 * 1000 ELSE 24 * 60 * 60 * 1000

\* C8 as stated: a call that returned what a cached entry held found the
\* entry younger than the TTL of its endpoint.
C8_ReadersCheckAge ==
    \A t \in Tasks : task[t].hit => task[t].ageSeen < StatedTTL(task[t].op)

\* C11 as stated: a movie that a year sync created, and whose title the
\* provider changed afterwards, is re-synced by calling the same operation
\* again for the (year, page): once the second call has returned without a
\* failure, the one row carries the new title and a later lastUpdated (the
\* first call ran at time 0), and the call's result reports added = 0 and
\* updated = 1.
C11_ResyncUpdatesTitle ==
    LET a == task["A"]
        b == task["B"]
    IN  /\ a.pc = "done" /\ ~a.hit /\ a.clean /\ a.added = 1
        /\ Len(listing) = 1 /\ edition = 2
        /\ b.pc = "done" /\ b.again /\ b.clean
        => /\ Cardinality(movies) = 1
           /\ \A m \in movies :
                 m.title = Title(listing[1], edition) /\ m.lastUpdated > 0
           /\ Result(b).added = 0
           /\ "updated" \in DOMAIN Result(b)
           /\ Result(b).updated = 1

\* C12 as stated: the row that a year sync creates has isFeatured = false and
\* isVisible = true whatever the rating; the row that a popular import creates
\* has isFeatured = (rating > 7.5); and the write of a title changes isFeatured
\* of no row that existed before it.
C12_FeaturedOnlyOnPopularCreate ==
    [][\A t \in Tasks :
          task[t].pc = "write" /\ task'[t] # task[t]
              => LET before == IF IsTv(task[t].op) THEN tvShows ELSE movies
                     after  == IF IsTv(task[t].op) THEN tvShows' ELSE movies'
                 IN  /\ \A q \in after :
                           (\A r \in before : r.id # q.id)
                               => /\ q.isVisible
                                  /\ q.isFeatured = (/\ ~IsYearOp(task[t].op)
                                                     /\ VoteAverage(q.tmdbId) > 75)
                     /\ \A r \in before, q \in after :
                           q.id = r.id => q.isFeatured = r.isFeatured]_vars

\* C13: the step that handles the detail response of a title without IMDb id
\* writes nothing, adds one to `unavailable`, leaves `added`, and moves the pass
\* to the next title of the page or to its return; no call is ever at a probe,
\* a lookup or a write with a missing IMDb id.
C13_NoIdSkipped ==
    [][\A t \in Tasks :
          /\ task[t].pc = "detail" /\ task'[t] # task[t]
                /\ ImdbOf(task[t].results[task[t].i]) = NoId
                => /\ storeVars' = storeVars
                   /\ task'[t].unavailable = task[t].unavailable + 1
                   /\ task'[t].added = task[t].added
                   /\ IF task[t].i < Len(task[t].results)
                      THEN task'[t].pc = "detail" /\ task'[t].i = task[t].i + 1
                      ELSE task'[t].pc = "done"
          /\ task'[t].pc \in {"probe", "lookup", "write"}
                => task'[t].imdbId # NoId]_vars

\* A pass over a page whose first title has no IMDb id has returned: it
\* counted that title and created the row of the second.
C13_Witness ==
    /\ listing = <<3, 1>>
    /\ task["A"].pc = "done" /\ ~task["A"].hit /\ task["A"].clean
    /\ task["A"].unavailable = 1 /\ task["A"].added = 1
    /\ task["B"].pc = "idle"

\* The positions of a series pass from the lookup of the row to the end of the
\* expansion.
AfterGate == {"lookup", "write", "season", "epProbe", "epLookup", "epWrite", "seasonEnd"}

\* C14: the step in which the probe of (imdbId, 1, 1) answers false for a
\* series changes neither the series rows nor the episode rows, counts the
\* series once and moves to the next title; a series pass is at the lookup,
\* the write, a season-detail call or an episode step only for a series whose
\* probe answers true.
C14_SeriesGate ==
    [][\A t \in Tasks :
          IsTv(task[t].op) =>
              /\ task[t].pc = "probe" /\ task'[t] # task[t] /\ task[t].imdbId \notin avail
                    => /\ tvShows' = tvShows /\ episodes' = episodes
                       /\ task'[t].unavailable = task[t].unavailable + 1
                       /\ task'[t].pc \in {"detail", "done"}
              /\ task'[t].pc \in AfterGate => task'[t].imdbId \in avail']_vars

\* A series with a row and episodes from an earlier pass stopped being
\* playable; the second pass counted it and left the rows.
C14_Witness ==
    /\ listing = <<1>> /\ ImdbOf(1) \notin avail
    /\ task["B"].pc = "done" /\ IsTv(task["B"].op) /\ ~task["B"].hit
    /\ task["B"].unavailable = 1 /\ task["B"].clean
    /\ tvShows # {} /\ episodes # {}

\* The positions of a series pass inside the expansion of a series.
InExpansion == {"season", "epProbe", "epLookup", "epWrite", "seasonEnd"}

C16_EpisodesProbedAndCounted ==
    [][\A t \in Tasks :
          /\ task[t].pc = "epProbe" /\ task'[t] # task[t] /\ task'[t].pc # "epLookup"
                => /\ episodes' = episodes
                   /\ task'[t].epUnavailable = task[t].epUnavailable + 1
          /\ task[t].pc = "seasonEnd" /\ task'[t] # task[t]
                => Result(task'[t]).unavailable
                       = Result(task[t]).unavailable + task[t].epUnavailable]_vars

\* The positions of a pass inside the processing of one title of its page.
InTitle == {"detail", "probe", "lookup", "write"} \cup InExpansion

\* C17: no step of the processing of a title, whether its detail call or a
\* storage call fails or not, makes the pass throw; the step that ends a
\* title goes to the next title of the page, and to the return, with total =
\* the length of the page, only after the last one.
C17_TitleFailureContained ==
    [][\A t \in Tasks :
          LET r == task[t]
              q == task'[t]
          IN  r.op \in TmdbOps /\ r.pc \in InTitle /\ q # r
                  => /\ q.pc # "failed"
                     /\ q.pc = "done"
                           => r.i = Len(r.results) /\ Result(q).total = Len(r.results)
                     /\ q.pc # "done"
                           => /\ q.results = r.results
                              /\ q.i \in {r.i, r.i + 1}
                              /\ q.i = r.i + 1 => q.pc = "detail"
                              /\ q.i = r.i => q.pc \in InTitle \ {"detail"}]_vars

\* The first title of a page of two playable movies failed; the pass counted
\* it, created the row of the second and returned total = 2.
C17_Witness ==
    /\ listing = <<1, 2>> /\ {ImdbOf(1), ImdbOf(2)} \subseteq avail
    /\ task["A"].pc = "done" /\ ~task["A"].clean
    /\ task["A"].unavailable = 1 /\ task["A"].added = 1 /\ task["A"].total = 2
    /\ \A m \in movies : m.imdbId = ImdbOf(2)
    /\ movies # {}

\* C18 as stated: when a call that refresh awaits for a page after the
\* first, or for the series of any page, fails at its discovery request,
\* refresh does not raise: it returns, with the counts it had accumulated, and
\* makes no further call.
C18_RefreshReturnsPartialCounts ==
    [][/\ refresh.pc = "tvShows" \/ (refresh.pc = "movies" /\ refresh.page > 1)
       /\ task["A"].pc = "failed" /\ task["A"].thrownAt = "fetch"
       /\ refresh' # refresh
       => /\ refresh'.pc = "done"
          /\ refresh'.results = refresh.results
          /\ task'["A"].pc = "idle"]_vars

\* C19: a call makes its discovery request once, right after its cache check;
\* when the request fails the call ends by throwing and no store has changed,
\* no cache entry and no row; and the cache check of a call made again for the
\* same operation, year and page after such a failure does not return from
\* the cache: the request is made again.
C19_FailedDiscoveryNotRetried ==
    [][/\ \A t \in Tasks :
             LET r == task[t]
                 q == task'[t]
             IN  /\ q.pc = "fetch" /\ q # r => r.pc = "getCache"
                 /\ r.pc = "fetch" /\ q # r => q.pc \in {"failed", "setCache", "done"}
                 /\ r.pc = "fetch" /\ q.pc = "failed"
                       => storeVars' = storeVars /\ q.thrownAt = "fetch"
       /\ LET a == task["A"]
              b == task["B"]
          IN  /\ a.pc = "failed" /\ a.thrownAt = "fetch"
              /\ b.pc = "getCache" /\ task'["B"] # b
              /\ b.op = a.op /\ b.year = a.year /\ b.page = a.page
              => task'["B"].pc \in {"fetch", "failed"}]_vars

\* The request of the first call failed; the same call made again fetched
\* the page and created a row.
C19_Witness ==
    /\ task["A"].pc = "failed" /\ task["A"].thrownAt = "fetch"
    /\ task["B"].pc = "done" /\ task["B"].op = task["A"].op
    /\ ~task["B"].hit /\ task["B"].added = 1
    /\ apiCaches # {}

\* A text is numeric when it is a numeral: digits and nothing else.
Numeric(text) == text # <<>> /\ \A k \in 1..Len(text) : IsDigit(text[k])

RECURSIVE Decimal(_)
\* The number a numeral names.
Decimal(text) ==
    IF text = <<>> THEN 0
    ELSE 10 * Decimal(SubSeq(text, 1, Len(text) - 1)) + DigitValue(text[Len(text)])

\* The year is a number between 1900 and the current year.
GoodYear(text) ==
    /\ Numeric(text)
    /\ 1900 <= Decimal(text) /\ Decimal(text) <= CurrentYear

\* 1900 <= startYear <= endYear <= currentYear
GoodRange(start, end) ==
    GoodYear(start) /\ GoodYear(end) /\ Decimal(start) <= Decimal(end)

\* A click on the bulk import button with a range that is not good neither
\* initialises the progress nor sends a request nor starts a sync call.
BulkRejects ==
    /\ bulk.pc = "idle" /\ ~GoodRange(bulk.start, bulk.end)
    /\ bulk'.start = bulk.start /\ bulk'.end = bulk.end /\ bulk'.type = bulk.type
    => /\ bulk'.pc = "idle"
       /\ bulk'.progress = bulk.progress
       /\ ~bulk'.progress.isImporting
       /\ route'.from # "bulk"
       /\ bulk' # bulk => bulk'.toast \in {"Invalid Start Year", "Invalid End Year",
                                           "Invalid Year Range"}

\* The route handler's step on a request whose year satisfies bad: 400, and
\* no call of the discovery operation.
RouteRejects(bad) ==
    route.pc = "requested" /\ route' # route /\ bad
    => /\ route'.pc = "answered" /\ route'.status = 400
       /\ task' = task
       /\ storeVars' = storeVars

\* C20 (as stated): the bulk import rejects every year range that violates
\* 1900 <= startYear <= endYear <= currentYear or is not numeric, before it
\* initialises the progress and before any request (no sync call, isImporting
\* stays false); the single-year route answers 400 without calling the
\* provider when its year is below 1900, above the current year or not
\* numeric.
C20_InvalidYearsRejected ==
    [][BulkRejects /\ RouteRejects(~GoodYear(route.year))]_vars

\* The leading digits of a text, as a text.
LeadingNumeral(text) ==
    SubSeq(text, 1, CHOOSE n \in 0..Len(text) :
                        /\ \A k \in 1..n : IsDigit(text[k])
                        /\ n < Len(text) => ~IsDigit(text[n + 1]))

\* C20 (amended): as stated for the bulk import, whose inputs hold numerals;
\* the single-year route answers 400 without calling the provider when the
\* year text does not begin with a digit or when the number spelled by its
\* leading digits is below 1900 or above the current year; what follows the
\* leading digits is ignored.
C20_LeadingYearsRejected ==
    [][BulkRejects /\ RouteRejects(~GoodYear(LeadingNumeral(route.year)))]_vars

\* A range with start > end was rejected by the bulk import, and then the
\* route answered 400 to a year below 1900, with nothing called or written.
C20_Witness ==
    /\ bulk.toast = "Invalid Year Range" /\ ~bulk.progress.isImporting
    /\ bulk.progress.totalYears = 0
    /\ route.pc = "answered" /\ route.status = 400 /\ route.year = ToText(1899)
    /\ task["A"].pc = "idle"
    /\ apiCaches = {} /\ movies = {} /\ tvShows = {}

\* The number of years of the range in the form.
YearsInForm == Decimal(bulk.end) - Decimal(bulk.start) + 1

\* A step of the bulk import button on the range in the form.
Clicked ==
    /\ bulk.pc = "idle" /\ bulk' # bulk
    /\ bulk'.start = bulk.start /\ bulk'.end = bulk.end /\ bulk'.type = bulk.type

\* The step starts the import: the progress is initialised and the request
\* of the first year is sent.
Starts ==
    /\ bulk'.progress.isImporting
    /\ bulk'.progress.totalYears = YearsInForm
    /\ route'.pc = "requested" /\ route'.from = "bulk"

\* C21: on a valid range of more than 5 years the bulk import asks for
\* confirmation, and without it sets isImporting not and sends no request;
\* on a valid range of 5 years or fewer it starts without asking.
C21_LargeRangeNeedsConfirmation ==
    [][Clicked /\ GoodRange(bulk.start, bulk.end)
       => IF YearsInForm > 5
          THEN /\ bulk'.asked
               /\ IF bulk'.confirmed THEN Starts
                  ELSE /\ ~bulk'.progress.isImporting
                       /\ bulk'.progress = bulk.progress
                       /\ route' = route /\ task' = task
          ELSE ~bulk'.asked /\ Starts]_vars

\* A range of six years was asked about and declined: nothing is importing,
\* nothing was requested.
C21_Witness ==
    /\ bulk.asked /\ ~bulk.confirmed
    /\ GoodRange(bulk.start, bulk.end) /\ YearsInForm = 6
    /\ ~bulk.progress.isImporting /\ bulk.progress.totalYears = 0
    /\ route.pc = "idle" /\ task["A"].pc = "idle" /\ apiCaches = {}

\* The bulk import has gone through its loop and has not been started since.
Completed == bulk.pc = "idle" /\ bulk.toast = "Bulk Import Completed"

\* The answers that told a failure.
FailedAnswers == {k \in 1..Len(bulk.answers) : bulk.answers[k].status # 200}

C23_BulkImportCompletes ==
    /\ bulk.progress.isImporting ~> (Completed /\ ~bulk.progress.isImporting)
    /\ [](bulk.pc # "idle" => bulk.progress.isImporting)
    /\ [](bulk.pc # "idle" \/ Completed
             => bulk.progress.totalYears = bulk.endYear - bulk.startYear + 1)
    /\ [](Completed => Len(bulk.answers) = bulk.progress.totalYears)

\* A bulk import of several years has completed after successes and
\* failures.
C23_Witness ==
    /\ Completed /\ ~bulk.progress.isImporting
    /\ bulk.progress.totalYears = bulk.endYear - bulk.startYear + 1
    /\ bulk.progress.totalYears >= 3
    /\ bulk.progress.errorCount >= 1
    /\ bulk.progress.errorCount < bulk.progress.totalYears

RECURSIVE AddedBy(_)
\* The sum of `added` over the served years of a sequence of answers.
AddedBy(answers) ==
    IF answers = <<>> THEN 0
    ELSE AddedBy(SubSeq(answers, 1, Len(answers) - 1))
            + (IF answers[Len(answers)].status = 200
               THEN answers[Len(answers)].added ELSE 0)

\* C24: processedCount grows after each served year by the number of items
\* that year's sync reported as added: whenever no answer waits to be
\* handled, and so at completion, it is the sum of `added` over the years
\* whose request succeeded.
C24_ProcessedCountSumsAdded ==
    (bulk.progress.isImporting /\ bulk.pc = "delay") \/ Completed
    => bulk.progress.processedCount = AddedBy(bulk.answers)

\* C25: the probe returns true for every answer with a status of the 2xx
\* class and false for every other status and for every transport error; it
\* does not throw and it leaves the cache and the catalog as they were.
C25_ProbeTrueOn2xx ==
    probe.pc = "returned"
    => /\ probe.result = (/\ probe.response.kind = "status"
                          /\ probe.response.status \in 200..299)
       /\ apiCaches = {} /\ movies = {} /\ tvShows = {} /\ episodes = {}

\* The order of the steps of one title, and of one episode of a season.
Phase(pc) ==
    CASE pc = "detail" -> 1 [] pc = "probe" -> 2 [] pc = "lookup" -> 3
      [] pc = "write" -> 4 [] pc \in InExpansion -> 5

EpisodePhase(pc) ==
    CASE pc = "season" -> 0 [] pc = "epProbe" -> 1 [] pc = "epLookup" -> 2
      [] pc = "epWrite" -> 3 [] pc = "seasonEnd" -> 4

\* Position q of the expansion of a series comes after position r.
LaterInExpansion(r, q) ==
    \/ q.seasonNum = r.seasonNum + 1 /\ q.pc = "season" /\ r.pc = "seasonEnd"
    \/ /\ q.seasonNum = r.seasonNum
       /\ \/ q.pc = "seasonEnd" /\ r.pc # "seasonEnd"
          \/ q.j = r.j + 1 /\ q.pc = "epProbe"
          \/ q.j = r.j /\ EpisodePhase(q.pc) = EpisodePhase(r.pc) + 1

\* C26: a pass awaits one call at a time, in the order of the code: every
\* step of a pass inside a title either goes to a later step of the same
\* title (in the expansion: a later step of the same episode, the next
\* episode, the end of the season, or the next season), or starts the next
\* title of the page with its detail call, or ends the pass after the last
\* title; it leaves a series whose row it wrote only after the whole
\* expansion; and the stores change only in the step in which the awaited
\* storage call of the pass returns.
C26_StrictlySequential ==
    [][\A t \in Tasks :
          LET r == task[t]
              q == task'[t]
          IN  r.pc \in InTitle /\ q # r
              => /\ \/ /\ q.pc = "done" /\ r.i = Len(r.results)
                    \/ /\ q.pc \in InTitle /\ q.i = r.i /\ q.results = r.results
                       /\ IF r.pc \in InExpansion
                          THEN q.pc \in InExpansion /\ LaterInExpansion(r, q)
                          ELSE \/ Phase(q.pc) = Phase(r.pc) + 1 /\ q.pc # "seasonEnd"
                                  /\ (q.pc \in InExpansion => q.pc = "season" /\ q.seasonNum = 1)
                    \/ /\ q.pc = "detail" /\ q.i = r.i + 1 /\ q.results = r.results
                       /\ q.i <= Len(q.results)
                 /\ q.pc \notin InExpansion /\ r.pc \in InExpansion
                       => r.pc = "seasonEnd" /\ r.seasonNum = r.nSeasons
                 /\ q.pc \notin InExpansion /\ r.pc = "write" /\ IsTv(r.op)
                       /\ tvShows' # tvShows
                       => r.nSeasons = 0
                 /\ storeVars' # storeVars => r.pc \in {"write", "epWrite"}
                 /\ \A u \in Tasks \ {t} : task'[u] = task[u]]_vars

\* A series pass is at the detail call of the second title of its page after
\* it expanded both seasons of the long-running series listed first.
C26_Witness ==
    \E t \in Tasks :
        /\ task[t].pc = "detail" /\ task[t].i = 2
        /\ task[t].results = <<LongSeries, 2>>
        /\ {<<LongSeries, n>> : n \in 1..LongSeasons} \subseteq task[t].called
        /\ \E s \in tvShows : s.imdbId = ImdbOf(LongSeries)

\* The stored series with an IMDb id.
SeriesOf(imdbId) == {s \in tvShows : s.imdbId = imdbId}

\* C27: every episode row a sync step creates refers to a series row that
\* exists when it is created, the row of the series being expanded or of the
\* item's show_imdb_id; the latest-episodes import goes past an item whose
\* show_imdb_id matches no stored series without a create or an update; and
\* so every stored episode refers to a stored series.
C27_EpisodesReferToSeries ==
    [][/\ \A t \in Tasks :
             LET r == task[t]
                 q == task'[t]
             IN  /\ q # r
                    => \A e \in episodes' \ episodes :
                          /\ r.pc \in {"epWrite", "feedWrite"}
                          /\ \E s \in SeriesOf(IF r.pc = "epWrite" THEN r.imdbId
                                               ELSE r.results[r.i].show_imdb_id) :
                                s.id = e.tvShowId
                 /\ r.pc = "showLookup" /\ q # r
                       /\ SeriesOf(r.results[r.i].show_imdb_id) = {}
                    => /\ episodes' = episodes
                       /\ q.pc \in {"showLookup", "done", "failed"}
                       /\ q.pc = "showLookup" => q.i = r.i + 1
                       /\ q.added = r.added /\ q.updated = r.updated
       /\ \A e \in episodes' : \E s \in tvShows' : s.id = e.tvShowId]_vars

\* The episodes import went through a feed and skipped all of it, no series
\* being stored; a series pass then stored a series and episodes of it.
C27_Witness ==
    /\ task["A"].op = "fetchEpisodesFromVidsrc" /\ task["A"].pc = "done"
    /\ ~task["A"].hit /\ task["A"].total >= 1
    /\ task["A"].added = 0 /\ task["A"].updated = 0
    /\ episodes # {}
    /\ \A e \in episodes : \E s \in tvShows : s.id = e.tvShowId

Settled(r) ==
    IF r.pc \in {"detail", "probe", "lookup", "write"} THEN r.i - 1
    ELSE IF r.pc \in InExpansion THEN r.i
    ELSE r.total

\* C29: in a pass that missed the cache every step settles at most one title,
\* as created (one row more in the catalog, added + 1), as updated (the row
\* found is rewritten, no counter moves) or as skipped (unavailable + 1, no
\* row written); `added` moves only in a step that puts a row into the
\* catalog; the titles settled so far are added + unavailable + the rows
\* updated, and at the return total is the page length, added + unavailable
\* <= total and total - added - unavailable is the number of rows updated.
\* The invocations overlap, and a create refused because the other pass
\* created the row first is a skip.
C29_OutcomesAccounted ==
    [][\A t \in Tasks :
          LET r == task[t]
              q == task'[t]
              rows == Cardinality(Catalog(r.op))
              rowsAfter == Cardinality(Catalog(r.op)')
          IN  (r.op \in TmdbOps /\ r.pc \in InTitle /\ q # r)
                  => /\ q.added - r.added = rowsAfter - rows
                     /\ q.added - r.added \in {0, 1}
                     /\ q.unavailable - r.unavailable \in {0, 1}
                     /\ q.rowsUpdated - r.rowsUpdated \in {0, 1}
                     /\ (q.added - r.added) + (q.unavailable - r.unavailable)
                           + (q.rowsUpdated - r.rowsUpdated)
                        = Settled(q) - Settled(r)
                     /\ Settled(q) - Settled(r) \in {0, 1}
                     /\ q.unavailable > r.unavailable => Catalog(r.op)' = Catalog(r.op)
                     /\ q.rowsUpdated > r.rowsUpdated
                           => /\ r.pc = "write" /\ r.existing # 0
                              /\ \A row \in Catalog(r.op)' :
                                    row.id = r.existing => row.title = TitleData(r).title
                     /\ q.raceLost /\ ~r.raceLost => q.unavailable = r.unavailable + 1
                     /\ Settled(q) = q.added + q.unavailable + q.rowsUpdated
                     /\ q.pc = "done"
                           => /\ Result(q).total = Len(r.results)
                              /\ Result(q).added + Result(q).unavailable <= Result(q).total
                              /\ Result(q).total - Result(q).added - Result(q).unavailable
                                    = q.rowsUpdated]_vars

\* Two overlapping passes over the same title on the database: one created
\* the row, the other lost the create race and reports the title as
\* unavailable.
C29_Witness ==
    /\ backend = "db"
    /\ task["A"].pc = "done" /\ task["B"].pc = "done"
    /\ ~task["A"].hit /\ ~task["B"].hit
    /\ task["A"].added = 1 /\ ~task["A"].raceLost
    /\ task["B"].raceLost /\ task["B"].added = 0 /\ task["B"].unavailable = 1
    /\ task["B"].total = 2 /\ task["B"].rowsUpdated = 1

\* C30: the step in which the season-detail call of a season fails ends that
\* season's addEpisodesForSeason with the counts {0, 0}: the pass does not
\* throw, no row is written and no counter of the pass moves; the step after
\* it is the call for the next season of the same series, or the next title
\* after the last season; and no step of the expansion touches the series
\* rows or counts the series as unavailable, so that the series row written
\* before the expansion stays.
C30_SeasonFailureContained ==
    [][\A t \in Tasks :
          LET r == task[t]
              q == task'[t]
          IN  (IsTv(r.op) /\ r.pc \in InExpansion /\ q # r)
                  => /\ q.pc # "failed"
                     /\ q.unavailable = r.unavailable /\ q.added = r.added
                     /\ tvShows' = tvShows
                     /\ \E row \in tvShows : row.id = r.showId /\ row.imdbId = r.imdbId
                     /\ (r.pc = "season" /\ q.failedSeason = r.seasonNum)
                           => /\ q.pc = "seasonEnd"
                              /\ q.epAdded = 0 /\ q.epUnavailable = 0
                              /\ episodes' = episodes
                              /\ q.seasonNum = r.seasonNum /\ q.i = r.i
                     /\ (r.pc = "seasonEnd" /\ r.failedSeason = r.seasonNum)
                           => /\ episodes' = episodes
                              /\ IF r.seasonNum < NumberOfSeasons(r.results[r.i])
                                 THEN /\ q.pc = "season" /\ q.i = r.i
                                      /\ q.seasonNum = r.seasonNum + 1
                                      /\ q.showId = r.showId
                                 ELSE \/ q.pc = "detail" /\ q.i = r.i + 1
                                      \/ q.pc = "done" /\ r.i = Len(r.results)]_vars

\* Season 1 of a series of two seasons failed, and an episode of season 2 has
\* been written for the series, which is counted as added.
C30_Witness ==
    \E t \in Tasks :
        LET r == task[t]
        IN  /\ IsTv(r.op) /\ r.pc = "seasonEnd"
            /\ r.failedSeason = 1 /\ r.seasonNum = 2
            /\ r.added = 1 /\ r.unavailable = 0
            /\ \E row \in tvShows : row.id = r.showId
            /\ \E e \in episodes : e.tvShowId = r.showId /\ e.season = 2
            /\ ~\E e \in episodes : e.tvShowId = r.showId /\ e.season = 1

====
